---- MODULE Spec2Model ----
(***************************************************************************)
(* Model of the Evore autodeploy crank (js-crank): the polling loop        *)
(* runCrank, one tick runStrategy, the eligibility evaluation and the      *)
(* batch submission.  Addresses are small integers; a deployer's PDA and   *)
(* its manager are identified by the same index.                           *)
(***************************************************************************)
EXTENDS Integers, Sequences, FiniteSets, TLC

----------------------------------------------------------------------------
(* Bounds of the model *)

MaxDeployers == 3
MaxBatchDeployers == 8
MaxRound == 3
MaxAccounts == 3
MaxTables == 3
MaxLoads == 2
MaxCreates == 2
MaxMiners == 2
MaxTableLen == 45
MaxNew == 41
MaxSdkDeploys == 9

----------------------------------------------------------------------------
(* Program constants *)

DEPLOY_AMOUNT_LAMPORTS == 10000
AUTH_ID == 0
SQUARES_MASK == 33554431
DEPLOY_SLOTS_BEFORE_END == 150
MIN_SLOTS_TO_DEPLOY == 10
MAX_BATCH_SIZE_NO_LUT == 2
MAX_BATCH_SIZE_WITH_LUT == 7
AUTH_PDA_RENT == 890880
MINER_RENT_ESTIMATE == 2500000
DEPLOY_FEE == 1000
ORE_CHECKPOINT_FEE == 10000

\* for (let i = 0; i < newAddresses.length; i += 20) in extendLut
EXTEND_CHUNK == 20
PRIORITY_FEE == 100000

\* BigInt('18446744073709551615'), the "no round" end slot.  2^64 - 1 is
\* beyond the integers of the model checker, so the largest one stands for it;
\* every real slot of the model lies far below.
U64_MAX == 2147483647

\* JavaScript null where the code holds a BigInt or null
\* (state.lastRoundId, checkpointRound); on-chain ids are unsigned.
NULL_ID == -1

----------------------------------------------------------------------------
(* Values *)

\* End slot of the active round in the model's boards.
RoundEndSlot == 1000

\* On-chain fee terms of the deployer account with index i (bps, flat).
BpsFeeOf(i) == IF i = 1 THEN 500 ELSE IF i = 2 THEN 0 ELSE 333
FlatFeeOf(i) == IF i = 1 THEN 2000 ELSE IF i = 2 THEN 0 ELSE 1

\* One entry of the list findDeployers returns.
Deployer(i) ==
  [deployerAddress |-> i, managerAddress |-> i,
   bpsFee |-> BpsFeeOf(i), flatFee |-> FlatFeeOf(i)]

\* The list findDeployers returns for n deployer accounts, in scan order.
FindDeployers(n) == [i \in 1..n |-> Deployer(i)]

NoBoard == [roundId |-> NULL_ID, endSlot |-> 0, currentSlot |-> 0]

NoEval ==
  [addr |-> 0, marked |-> FALSE, miner |-> "none", probe |-> "none",
   balanceOk |-> FALSE, balance |-> 0, required |-> 0,
   checkpointRound |-> NULL_ID, minerCheckpointId |-> 0, minerRoundId |-> 0,
   authBalanceOk |-> TRUE]

\* What getMinerStatus can meet: getAccountInfo gives null ("absent") or
\* throws ("error"), decodeOreMiner throws ("garbled"), or the record decodes.
MinerAbsent == [outcome |-> "absent", checkpointId |-> 0, roundId |-> 0]
MinerError == [outcome |-> "error", checkpointId |-> 0, roundId |-> 0]
MinerGarbled == [outcome |-> "garbled", checkpointId |-> 0, roundId |-> 0]
MinerCurrent == [outcome |-> "ok", checkpointId |-> 1, roundId |-> 1]
MinerBehind == [outcome |-> "ok", checkpointId |-> 0, roundId |-> 1]

Min(a, b) == IF a < b THEN a ELSE b

----------------------------------------------------------------------------
(* Pure helpers of the crank *)

\* countBits: while (n) { count += n & 1; n >>>= 1 }
RECURSIVE countBits(_)
countBits(n) == IF n = 0 THEN 0 ELSE (n % 2) + countBits(n \div 2)

\* mask |= (1 << i)
setBit(mask, i) == IF (mask \div (2 ^ i)) % 2 = 1 THEN mask ELSE mask + 2 ^ i

\* (mask & (1 << i)) !== 0
testBit(mask, i) == (mask \div (2 ^ i)) % 2 = 1

\* The loop of squaresToMask from index i on (squares[i] of the code is
\* squares[i + 1] here).
RECURSIVE maskFrom(_, _, _)
maskFrom(squares, i, mask) ==
  IF i >= 25 THEN mask
  ELSE maskFrom(squares, i + 1, IF squares[i + 1] THEN setBit(mask, i) ELSE mask)

\* squaresToMask: throws unless the array has exactly 25 elements.
squaresToMask(squares) ==
  IF Len(squares) # 25 THEN [threw |-> TRUE, mask |-> 0]
  ELSE [threw |-> FALSE, mask |-> maskFrom(squares, 0, 0)]

\* Mutant: the last square is left out.
maskToSquaresShort(mask) == [i \in 1..25 |-> i < 25 /\ testBit(mask, i - 1)]

\* maskToSquares: 25 booleans, bit i of the mask at index i.
maskToSquares(mask) == [i \in 1..25 |-> testBit(mask, i - 1)]

\* Crank.getMinerStatus: null when the account is absent or fails to decode.
getMinerStatus(read) ==
  IF read.outcome = "ok"
  THEN [known |-> TRUE, checkpointId |-> read.checkpointId, roundId |-> read.roundId]
  ELSE [known |-> FALSE, checkpointId |-> 0, roundId |-> 0]

\* Mutant: a miner whose checkpoint is up to date is checkpointed as well.
needsCheckpointAlways(read) ==
  LET status == getMinerStatus(read) IN
  IF ~status.known THEN NULL_ID
  ELSE IF status.checkpointId <= status.roundId THEN status.roundId
  ELSE NULL_ID

\* Crank.needsCheckpoint: the miner's own round when its checkpoint lags.
needsCheckpoint(read) ==
  LET status == getMinerStatus(read) IN
  IF ~status.known THEN NULL_ID
  ELSE IF status.checkpointId < status.roundId THEN status.roundId
  ELSE NULL_ID

\* Mutant: the instruction always checkpoints the current round.
checkpointRoundIdOfCurrent(checkpointRound, roundId) == roundId

\* const checkpointRoundId = deploy.checkpointRound || roundId
\* (null and 0n are both falsy)
checkpointRoundIdOf(checkpointRound, roundId) ==
  IF checkpointRound = NULL_ID \/ checkpointRound = 0 THEN roundId ELSE checkpointRound

\* An instruction of a transaction: its kind, the value of a compute budget
\* instruction, the accounts and data of a deploy instruction.
Instruction(kind, value, manager, authId, roundId, checkpointRoundId, amount, squaresMask) ==
  [kind |-> kind, value |-> value, manager |-> manager, authId |-> authId,
   roundId |-> roundId, checkpointRoundId |-> checkpointRoundId,
   amount |-> amount, squaresMask |-> squaresMask]

\* ComputeBudgetProgram.setComputeUnitLimit({ units })
setComputeUnitLimit(units) ==
  Instruction("setComputeUnitLimit", units, 0, 0, 0, 0, 0, 0)

\* ComputeBudgetProgram.setComputeUnitPrice({ microLamports })
setComputeUnitPrice(microLamports) ==
  Instruction("setComputeUnitPrice", microLamports, 0, 0, 0, 0, 0, 0)

\* mmFullAutodeployInstruction: checkpoint, recycle and deploy in one
\* instruction; the round and the checkpoint round are accounts 9 and 10.
mmFullAutodeployInstruction(manager, authId, roundId, checkpointRoundId, amount, squaresMask) ==
  Instruction("MMFullAutodeploy", 0, manager, authId, roundId,
              checkpointRoundId, amount, squaresMask)

\* const cuLimit = Math.min(deploys.length * 400_000, 1_400_000)
cuLimit(n) == Min(n * 400000, 1400000)

\* Mutant: the price comes before the limit.
budgetPrefixPriceFirst(n) ==
  <<setComputeUnitPrice(PRIORITY_FEE), setComputeUnitLimit(cuLimit(n))>>

\* The two instructions every batch starts with.
budgetPrefix(n) ==
  <<setComputeUnitLimit(cuLimit(n)), setComputeUnitPrice(PRIORITY_FEE)>>

\* Crank.buildFullAutodeployInstructions: the compute budget instructions,
\* then one mmFullAutodeploy instruction per deploy.
buildFullAutodeployInstructions(deploys, roundId) ==
  budgetPrefix(Len(deploys)) \o
  [k \in 1..Len(deploys) |->
     mmFullAutodeployInstruction(
       deploys[k].deployer.managerAddress, deploys[k].authId, roundId,
       checkpointRoundIdOf(deploys[k].checkpointRound, roundId),
       deploys[k].amount, deploys[k].squaresMask)]

\* Mutant: a failed probe counts as "the account exists".
minerRentMissingOnly(probe) == IF probe = "missing" THEN MINER_RENT_ESTIMATE ELSE 0

\* mmAutodeployInstruction: the plain deploy instruction; it has no
\* checkpoint round, and the expected fees passed by the batch builder are
\* not among its parameters.
mmAutodeployInstruction(manager, authId, roundId, amount, squaresMask) ==
  Instruction("MMAutodeploy", 0, manager, authId, roundId, 0, amount, squaresMask)

\* Mutant: no limit on the number of deploys.
buildBatchedAutodeployInstructionsUnlimited(deploys, roundId) ==
  [threw |-> FALSE,
   instructions |->
     [k \in 1..Len(deploys) |->
        mmAutodeployInstruction(deploys[k].manager, deploys[k].authId, roundId,
                                deploys[k].amount, deploys[k].squaresMask)]]

\* buildBatchedAutodeployInstructions(executor, deploys, roundId) of the SDK
buildBatchedAutodeployInstructions(deploys, roundId) ==
  IF Len(deploys) > 7
  THEN [threw |-> TRUE, instructions |-> <<>>]
  ELSE [threw |-> FALSE,
        instructions |->
          [k \in 1..Len(deploys) |->
             mmAutodeployInstruction(deploys[k].manager, deploys[k].authId, roundId,
                                     deploys[k].amount, deploys[k].squaresMask)]]

\* Mutant: the rent of a missing miner account is forgotten.
minerRentNever(probe) == 0

\* The rent term of calculateRequiredBalance, from the probe of the ORE miner
\* account: "exists", "missing" (getAccountInfo gave null) or "error" (threw).
minerRent(probe) == IF probe = "exists" THEN 0 ELSE MINER_RENT_ESTIMATE

\* (a * b) / d on BigInt: the product is exact in the code; here it is
\* taken in two parts so that it stays within the checker's integers.
mulDiv(a, b, d) == (a \div d) * b + ((a % d) * b) \div d

\* Mutant: the flat fee is left out.
calculateDeployerFeeBpsOnly(totalDeployed, bpsFee, flatFee) ==
  mulDiv(totalDeployed, bpsFee, 10000)

\* calculateDeployerFee of the SDK
calculateDeployerFee(totalDeployed, bpsFee, flatFee) ==
  LET bpsFeeAmount == mulDiv(totalDeployed, bpsFee, 10000)
  IN bpsFeeAmount + flatFee

\* Mutant: the bps fee divided by 1000 instead of 10000.
calculateRequiredBalancePerMille(deployer, amountPerSquare, squaresMask, probe) ==
  LET totalDeployed == amountPerSquare * countBits(squaresMask)
  IN AUTH_PDA_RENT + ORE_CHECKPOINT_FEE + totalDeployed + minerRent(probe)
       + (totalDeployed * deployer.bpsFee) \div 1000 + deployer.flatFee + DEPLOY_FEE

\* Crank.calculateRequiredBalance
calculateRequiredBalance(deployer, amountPerSquare, squaresMask, probe) ==
  LET numSquares == countBits(squaresMask)
      totalDeployed == amountPerSquare * numSquares
      bpsFeeAmount == mulDiv(totalDeployed, deployer.bpsFee, 10000)
      deployerFee == bpsFeeAmount + deployer.flatFee
      protocolFee == DEPLOY_FEE
  IN AUTH_PDA_RENT + ORE_CHECKPOINT_FEE + totalDeployed + minerRent(probe)
       + deployerFee + protocolFee

\* const deployKey = `${deployer.deployerAddress.toBase58()}-${board.roundId}`
deployKey(deployerAddress, roundId) == <<deployerAddress, roundId>>

\* Mutant: the "no round" end slot is not recognised.
isSentinelNever(endSlot) == FALSE

\* if (board.endSlot === BigInt('18446744073709551615'))
isSentinel(endSlot) == endSlot = U64_MAX

\* Mutant: a new round is never noticed.
roundChangedNever(last, observed) == FALSE

\* Mutant: every tick is taken for a new round.
roundChangedAlways(last, observed) == TRUE

\* if (state.lastRoundId !== board.roundId)
roundChanged(last, observed) == last # observed

\* Mutant: the ceiling itself is already too early.
windowOpenBelowCeiling(slotsRemaining) ==
  /\ ~(slotsRemaining < MIN_SLOTS_TO_DEPLOY)
  /\ ~(slotsRemaining >= DEPLOY_SLOTS_BEFORE_END)

\* The two window returns of runStrategy, negated.
windowOpen(slotsRemaining) ==
  /\ ~(slotsRemaining < MIN_SLOTS_TO_DEPLOY)
  /\ ~(slotsRemaining > DEPLOY_SLOTS_BEFORE_END)

\* Mutant: an exactly sufficient balance is refused.
isEligibleStrict(balance, required) == balance > required

\* if (balance >= required)
isEligible(balance, required) == balance >= required

\* hasLuts = crank.registry && crank.registry.getSharedLut()
hasLuts(shared) == shared # "none"

\* Mutant: both limits one too large.
batchSizeForOneMore(luts) ==
  IF luts THEN MAX_BATCH_SIZE_WITH_LUT + 1 ELSE MAX_BATCH_SIZE_NO_LUT + 1

\* const batchSize = hasLuts ? MAX_BATCH_SIZE_WITH_LUT : MAX_BATCH_SIZE_NO_LUT
batchSizeFor(luts) == IF luts THEN MAX_BATCH_SIZE_WITH_LUT ELSE MAX_BATCH_SIZE_NO_LUT

\* Mutant: the slice loses its last task.
batchSliceShort(tasks, i, size) == SubSeq(tasks, i + 1, Min(i + size, Len(tasks)) - 1)

\* toDeploy.slice(i, i + batchSize), i counted from 0
batchSlice(tasks, i, size) == SubSeq(tasks, i + 1, Min(i + size, Len(tasks)))

\* Mutant: nothing is marked.
markNothing(marked, batch, roundId) == marked

\* Mutant: only the first task of the batch is marked.
markFirstOnly(marked, batch, roundId) ==
  IF Len(batch) = 0 THEN marked
  ELSE marked \cup {deployKey(batch[1].deployer.deployerAddress, roundId)}

\* for (const key of deployerKeys) state.deployedRounds.add(`${key}-${roundId}`)
markBatch(marked, batch, roundId) ==
  marked \cup {deployKey(batch[j].deployer.deployerAddress, roundId) : j \in 1..Len(batch)}

TaskAddrs(tasks) == {tasks[j].deployer.deployerAddress : j \in 1..Len(tasks)}

\* Mutant: a failed balance query is swallowed.
balanceThrowsNever(balRead) == FALSE

\* const balance = await crank.getAutodeployBalance(deployer): a rejected
\* getBalance is not caught inside runStrategy.
balanceThrows(balRead) == ~balRead.ok

\* Mutant: the submit call is not awaited.
awaitSendNot == "submit"

\* sig = await crank.executeBatched...(batch, board.roundId): where the batch
\* loop is while the call is outstanding.
awaitSend == "await"

\* Mutant: no try/catch around the submit call.
escapesBatchUncaught(outcome) == outcome # "sig"

\* try { ... } catch (err) { console.error(...) } inside the batch loop:
\* whether the outcome of a submit call leaves runStrategy as an exception.
escapesBatch(outcome) == FALSE

\* Mutant: an exception of runStrategy ends the process.
onStrategyErrorExit == "exited"

\* try { await runStrategy(...) } catch (err) { console.error(...) } in the
\* loop of runCrank: where the loop is after runStrategy threw.
onStrategyError == "done"

\* Mutant: the timer starts a tick whatever the previous one is doing.
tickMayStartAnytime(p) == p \in {"sleep", "eval", "submit"}

\* while (true) { await runStrategy(...); await setTimeout(...) }: runStrategy
\* is called only when the timer of the previous iteration has fired.
tickMayStart(p) == p = "sleep"

----------------------------------------------------------------------------
(* Discovery of the deployers *)

\* One entry of what getProgramAccounts returns to findDeployers: a deployer
\* account whose deploy authority is the crank ("ours") or somebody else
\* ("other"), or one whose data decodeDeployer cannot read ("garbled").
ProgramAccount(address, kind) == [address |-> address, kind |-> kind]

OwnAccounts(n) == [i \in 1..n |-> ProgramAccount(i, "ours")]

\* Mutant: a decode failure loses what the scan had found.
scanStepLosing(found, a) ==
  IF a.kind = "garbled" THEN <<>>
  ELSE IF a.kind # "ours" THEN found
  ELSE Append(found, Deployer(a.address))

\* The body of the for loop of findDeployers: decodeDeployer throws into the
\* catch (a warning), a foreign deploy authority continues, else push.
scanStep(found, a) ==
  IF a.kind = "garbled" THEN found
  ELSE IF a.kind # "ours" THEN found
  ELSE Append(found, Deployer(a.address))

RECURSIVE findDeployersFrom(_, _, _)
findDeployersFrom(found, accts, k) ==
  IF k > Len(accts) THEN found
  ELSE findDeployersFrom(scanStep(found, accts[k]), accts, k + 1)

\* Crank.findDeployers
findDeployers(accts) == findDeployersFrom(<<>>, accts, 1)

----------------------------------------------------------------------------
(* The registry of lookup tables *)

\* getStaticSharedAccounts: the 10 fixed addresses.
StaticSharedAccounts == <<101, 102, 103, 104, 105, 106, 107, 108, 109, 110>>

\* Mutant: the managed miner auth comes first.
getMinerAccountsAuthFirst(manager) ==
  <<manager + 40, manager, manager + 20, manager + 60, manager + 80>>

\* getMinerAccounts(manager, authId): manager, deployer, managedMinerAuth,
\* oreMiner, automation.
getMinerAccounts(manager) ==
  <<manager, manager + 20, manager + 40, manager + 60, manager + 80>>

\* getMinerAuthPda(manager, authId)
getMinerAuthPda(manager) == manager + 40

Range(f) == {f[k] : k \in DOMAIN f}

\* One lookup table account of the authority; ok = FALSE when
\* AddressLookupTableAccount.deserialize throws on its data.
Table(address, ok, addresses) ==
  [address |-> address, ok |-> ok, addresses |-> addresses]

SharedTable == Table("lut", TRUE, StaticSharedAccounts)

\* new LutRegistry(connection, authority)
NewRegistry ==
  [sharedLut |-> "none", sharedLutAccounts |-> {}, minerLuts |-> {},
   lutCache |-> {}]

\* Map.set on minerLuts, a set of <<miner_auth, lut_address>>.
mapSet(map, key, value) == {e \in map : e[1] # key} \cup {<<key, value>>}

\* Mutant: a later table that holds the static accounts replaces the shared one.
loadStepLastShared(reg, t) ==
  IF ~t.ok THEN reg
  ELSE LET cached == [reg EXCEPT !.lutCache = @ \cup {t.address}]
           hasAllStatic == Range(StaticSharedAccounts) \subseteq Range(t.addresses)
       IN IF hasAllStatic
          THEN [cached EXCEPT !.sharedLut = t.address,
                              !.sharedLutAccounts = Range(t.addresses)]
          ELSE IF Len(t.addresses) = 5
          THEN [cached EXCEPT !.minerLuts = mapSet(@, t.addresses[3], t.address)]
          ELSE cached

\* Mutant: five addresses or more make a miner table.
loadStepFiveOrMore(reg, t) ==
  IF ~t.ok THEN reg
  ELSE LET cached == [reg EXCEPT !.lutCache = @ \cup {t.address}]
           hasAllStatic == Range(StaticSharedAccounts) \subseteq Range(t.addresses)
       IN IF hasAllStatic /\ cached.sharedLut = "none"
          THEN [cached EXCEPT !.sharedLut = t.address,
                              !.sharedLutAccounts = Range(t.addresses)]
          ELSE IF Len(t.addresses) >= 5
          THEN [cached EXCEPT !.minerLuts = mapSet(@, t.addresses[3], t.address)]
          ELSE cached

\* The body of the for loop of loadAllLuts.  addresses[2] of the code is the
\* third address, addresses[3] here.
loadStep(reg, t) ==
  IF ~t.ok THEN reg
  ELSE LET cached == [reg EXCEPT !.lutCache = @ \cup {t.address}]
           hasAllStatic == Range(StaticSharedAccounts) \subseteq Range(t.addresses)
       IN IF hasAllStatic /\ cached.sharedLut = "none"
          THEN [cached EXCEPT !.sharedLut = t.address,
                              !.sharedLutAccounts = Range(t.addresses)]
          ELSE IF Len(t.addresses) = 5
          THEN [cached EXCEPT !.minerLuts = mapSet(@, t.addresses[3], t.address)]
          ELSE cached

RECURSIVE loadFrom(_, _, _)
loadFrom(reg, tabs, k) ==
  IF k > Len(tabs) THEN reg ELSE loadFrom(loadStep(reg, tabs[k]), tabs, k + 1)

\* LutRegistry.loadAllLuts on the registry reg, the scan giving tabs.
loadAllLuts(reg, tabs) == loadFrom(reg, tabs, 1)

\* The fields of the registry other than sharedLut.
RegistryPart(reg) ==
  [sharedLutAccounts |-> reg.sharedLutAccounts, minerLuts |-> reg.minerLuts,
   lutCache |-> reg.lutCache]

\* LutRegistry.getMissingSharedAddresses: the static accounts, in their
\* order, that sharedLutAccounts does not hold.
getMissingSharedAddresses(reg) ==
  SelectSeq(StaticSharedAccounts, LAMBDA a : a \notin reg.sharedLutAccounts)

\* this.minerLuts.get(minerAuth): the table address or "none".
minerLutOf(reg, minerAuth) ==
  IF \E e \in reg.minerLuts : e[1] = minerAuth
  THEN (CHOOSE e \in reg.minerLuts : e[1] = minerAuth)[2]
  ELSE "none"

RECURSIVE minerLutsFrom(_, _, _)
minerLutsFrom(reg, minerAuths, k) ==
  IF k > Len(minerAuths) THEN <<>>
  ELSE LET lutAddress == minerLutOf(reg, minerAuths[k])
           here == IF lutAddress # "none" /\ lutAddress \in reg.lutCache
                   THEN <<lutAddress>> ELSE <<>>
       IN here \o minerLutsFrom(reg, minerAuths, k + 1)

\* LutRegistry.getLutsForMiners: the cached shared table, then the cached
\* table of every requested miner_auth that has one; tables by address.
getLutsForMiners(reg, minerAuths) ==
  (IF reg.sharedLut # "none" /\ reg.sharedLut \in reg.lutCache
   THEN <<reg.sharedLut>> ELSE <<>>)
    \o minerLutsFrom(reg, minerAuths, 1)

----------------------------------------------------------------------------
(* Creating and extending lookup tables *)

\* Where the RPC of one registry call fails, if it does: at "create" or at
\* the chunk-th transaction of "extend", either before the transaction is
\* out ("send": getSlot, getLatestBlockhash or sendRawTransaction throws) or
\* when confirmTransaction throws ("confirm"; the transaction may have landed
\* all the same), or at "cache" (getAccountInfo / deserialize after the
\* extension of a miner table).
Failure(at, stage, chunk, landed) ==
  [at |-> at, stage |-> stage, chunk |-> chunk, landed |-> landed]

NoFailure == Failure("none", "none", 0, FALSE)

\* One RPC event of a registry call: a transaction sent or confirmed.
RpcEvent(what, kind, table, addresses) ==
  [what |-> what, kind |-> kind, table |-> table, addresses |-> addresses]

\* The address createLookupTable derives for the k-th table made here.
NewTableNames == <<"n1", "n2", "n3", "n4", "n5", "n6">>

\* The chain after an extend transaction for the table landed.
Extended(tabs, lutAddress, chunk) ==
  [i \in DOMAIN tabs |->
     IF tabs[i].address = lutAddress
     THEN [tabs[i] EXCEPT !.addresses = @ \o chunk] ELSE tabs[i]]

\* LutRegistry.createLut: the transaction is sent and then confirmed.
createLut(tabs, name, fail) ==
  IF fail.at = "create" /\ fail.stage = "send"
  THEN [threw |-> TRUE, tables |-> tabs, events |-> <<>>]
  ELSE IF fail.at = "create" /\ fail.stage = "confirm"
  THEN [threw |-> TRUE,
        tables |-> IF fail.landed THEN Append(tabs, Table(name, TRUE, <<>>)) ELSE tabs,
        events |-> <<RpcEvent("sent", "create", name, <<>>)>>]
  ELSE [threw |-> FALSE,
        tables |-> Append(tabs, Table(name, TRUE, <<>>)),
        events |-> <<RpcEvent("sent", "create", name, <<>>),
                     RpcEvent("confirmed", "create", name, <<>>)>>]

\* chunks[k - 1] of extendLut: newAddresses.slice(i, i + 20), i = 20 (k - 1).
chunkOf(newAddresses, k) ==
  SubSeq(newAddresses, (k - 1) * EXTEND_CHUNK + 1,
         Min(k * EXTEND_CHUNK, Len(newAddresses)))

\* chunks.length of extendLut.
chunkCount(newAddresses) == (Len(newAddresses) + EXTEND_CHUNK - 1) \div EXTEND_CHUNK

\* Mutant: the confirmation of a chunk is not awaited.
sendChunkUnawaited(tabs, lutAddress, chunk, events) ==
  [tables |-> Extended(tabs, lutAddress, chunk),
   events |-> Append(events, RpcEvent("sent", "extend", lutAddress, chunk))]

\* One iteration of "for (const chunk of chunks)" without a failure:
\* sendRawTransaction, then await confirmTransaction.
sendChunk(tabs, lutAddress, chunk, events) ==
  [tables |-> Extended(tabs, lutAddress, chunk),
   events |-> events \o <<RpcEvent("sent", "extend", lutAddress, chunk),
                          RpcEvent("confirmed", "extend", lutAddress, chunk)>>]

RECURSIVE extendFrom(_, _, _, _, _, _)
extendFrom(tabs, lutAddress, newAddresses, k, fail, events) ==
  IF k > chunkCount(newAddresses)
  THEN [threw |-> FALSE, tables |-> tabs, events |-> events]
  ELSE LET chunk == chunkOf(newAddresses, k) IN
       IF fail.at = "extend" /\ fail.chunk = k /\ fail.stage = "send"
       THEN [threw |-> TRUE, tables |-> tabs, events |-> events]
       ELSE IF fail.at = "extend" /\ fail.chunk = k
       THEN [threw |-> TRUE,
             tables |-> IF fail.landed THEN Extended(tabs, lutAddress, chunk) ELSE tabs,
             events |-> Append(events, RpcEvent("sent", "extend", lutAddress, chunk))]
       ELSE LET sent == sendChunk(tabs, lutAddress, chunk, events) IN
            extendFrom(sent.tables, lutAddress, newAddresses, k + 1, fail, sent.events)

\* LutRegistry.extendLut: nothing at all for no new addresses, else one
\* transaction per chunk, each confirmed before the next.
extendLut(tabs, lutAddress, newAddresses, fail) ==
  IF Len(newAddresses) = 0
  THEN [threw |-> FALSE, tables |-> tabs, events |-> <<>>]
  ELSE extendFrom(tabs, lutAddress, newAddresses, 1, fail, <<>>)

\* The outcome of a registry call: whether it threw, the table it returned,
\* the registry and the chain it left, and its RPC events in order.
CallResult(threw, result, reg, tabs, events) ==
  [threw |-> threw, result |-> result, reg |-> reg, tables |-> tabs,
   events |-> events]

\* Mutant: the shared table is created again on every call.
ensureSharedLutAlwaysCreates(reg, tabs, name, fail) ==
  LET made == createLut(tabs, name, fail)
      reg1 == [reg EXCEPT !.sharedLut = name]
      missing == getMissingSharedAddresses(reg1)
      ext == extendLut(made.tables, name, missing, fail)
  IN IF made.threw
     THEN CallResult(TRUE, "none", reg, made.tables, made.events)
     ELSE IF ext.threw
     THEN CallResult(TRUE, "none", reg1, ext.tables, made.events \o ext.events)
     ELSE CallResult(FALSE, name,
            [reg1 EXCEPT !.sharedLutAccounts = @ \cup Range(missing)],
            ext.tables, made.events \o ext.events)

\* LutRegistry.ensureSharedLut(keypair); name is the address a table
\* created by this call gets.
ensureSharedLut(reg, tabs, name, fail) ==
  LET create == reg.sharedLut = "none"
      made == IF create THEN createLut(tabs, name, fail)
              ELSE [threw |-> FALSE, tables |-> tabs, events |-> <<>>]
      reg1 == IF create THEN [reg EXCEPT !.sharedLut = name] ELSE reg
      missing == getMissingSharedAddresses(reg1)
      ext == IF Len(missing) > 0
             THEN extendLut(made.tables, reg1.sharedLut, missing, fail)
             ELSE [threw |-> FALSE, tables |-> made.tables, events |-> <<>>]
  IN IF made.threw
     THEN CallResult(TRUE, "none", reg, made.tables, made.events)
     ELSE IF ext.threw
     THEN CallResult(TRUE, "none", reg1, ext.tables, made.events \o ext.events)
     ELSE CallResult(FALSE, reg1.sharedLut,
            [reg1 EXCEPT !.sharedLutAccounts = @ \cup Range(missing)],
            ext.tables, made.events \o ext.events)

\* LutRegistry.ensureMinerLut(keypair, manager, authId)
ensureMinerLut(reg, tabs, name, manager, fail) ==
  LET minerAuth == getMinerAuthPda(manager)
      made == createLut(tabs, name, fail)
      ext == extendLut(made.tables, name, getMinerAccounts(manager), fail)
      reg1 == [reg EXCEPT !.minerLuts = mapSet(@, minerAuth, name)]
  IN IF minerLutOf(reg, minerAuth) # "none"
     THEN CallResult(FALSE, minerLutOf(reg, minerAuth), reg, tabs, <<>>)
     ELSE IF made.threw
     THEN CallResult(TRUE, "none", reg, made.tables, made.events)
     ELSE IF ext.threw
     THEN CallResult(TRUE, "none", reg, ext.tables, made.events \o ext.events)
     ELSE IF fail.at = "cache"
     THEN CallResult(TRUE, "none", reg1, ext.tables, made.events \o ext.events)
     ELSE CallResult(FALSE, name,
            [reg1 EXCEPT !.lutCache = @ \cup {name}],
            ext.tables, made.events \o ext.events)

----------------------------------------------------------------------------
(* State *)

VARIABLES
  chainRound,     \* the board's round id on chain
  sharedLut,      \* crank.registry.sharedLut: "none" or the table's address
  deployers,      \* the list runCrank got from findDeployers
  lastRoundId,    \* state.lastRoundId
  deployedRounds, \* state.deployedRounds
  pc,             \* where the loop is: "sleep", "eval", "submit" or "done"
  exit,           \* how the tick ended: "sentinel", "window", "error", "done"
  board,          \* the board the running tick read
  idx,            \* position of the evaluation loop in deployers
  toDeploy,       \* toDeploy of the running tick
  bi,             \* i of the batch loop
  lastEval,       \* what the last step of the evaluation loop read and decided
  evalLog,        \* per deployer of this tick: "marked", "funded", "short", "error"
  batchLog,       \* the batches handed to the submitter in this tick, with results
  lastTx,         \* on-chain fate of the last transaction accepted in this tick
  watch,          \* address of the deployer whose submissions are recorded, or 0
  history,        \* <<"accepted" | "doubled" | "failed", round>> of the watched one
  calc,           \* inputs and result of a stand-alone calculateRequiredBalance call
  inFlight,       \* submit calls that were made and have not returned or thrown
  running,        \* runStrategy calls that were made and have not returned or thrown
  accounts,       \* the deployer accounts getProgramAccounts gave to findDeployers
  tables,         \* the lookup tables of the authority, as getProgramAccounts gives them
  registry,       \* crank.registry: sharedLutAccounts, minerLuts, lutCache
  loadLog,        \* the classification after each run of loadAllLuts so far
  lastCall,       \* the last call on the registry: what it met, sent and left
  created,        \* number of createLut calls that derived a table address
  sdk,            \* the last call of an SDK helper: its input and what it gave
  setupLog        \* the steps of the setupLuts runs so far, in order

vars ==
  <<chainRound, sharedLut, deployers, lastRoundId, deployedRounds, pc, exit,
    board, idx, toDeploy, bi, lastEval, evalLog, batchLog, lastTx, watch,
    history, calc, inFlight, running, accounts, tables, registry, loadLog,
    lastCall, created, sdk, setupLog>>

\* No SDK helper was called yet.
NoSdk ==
  [op |-> "none", input |-> <<>>, roundId |-> 0, threw |-> FALSE,
   output |-> <<>>, back |-> <<>>, bits |-> 0]

\* The registry as one record, sharedLut included.
FullRegistry ==
  [sharedLut |-> sharedLut, sharedLutAccounts |-> registry.sharedLutAccounts,
   minerLuts |-> registry.minerLuts, lutCache |-> registry.lutCache]

NoCall ==
  [op |-> "none", arg |-> 0, prev |-> "none", prevThrew |-> FALSE,
   before |-> NewRegistry, threw |-> FALSE, result |-> "none", events |-> <<>>]

NoCalc ==
  [called |-> FALSE, amount |-> 0, mask |-> 0, bpsFee |-> 0, flatFee |-> 0,
   probe |-> "none", required |-> 0]

\* The state runCrank sets up before the loop: registry loaded, deployers
\* found in the accounts of the scan (with none, runCrank returns instead of
\* starting the loop), state = { null, new Set() }.
StartWith(accts, lut, round, w) ==
  /\ chainRound = round
  /\ sharedLut = lut
  /\ accounts = accts
  /\ deployers = findDeployers(accts)
  /\ lastRoundId = NULL_ID
  /\ deployedRounds = {}
  /\ pc = IF Len(findDeployers(accts)) = 0 THEN "returned" ELSE "sleep"
  /\ exit = "none"
  /\ board = NoBoard
  /\ idx = 0
  /\ toDeploy = <<>>
  /\ bi = 0
  /\ lastEval = NoEval
  /\ evalLog = <<>>
  /\ batchLog = <<>>
  /\ lastTx = "none"
  /\ watch = w
  /\ history = {}
  /\ calc = NoCalc
  /\ inFlight = 0
  /\ running = 0
  /\ tables = IF lut = "none" THEN <<>> ELSE <<SharedTable>>
  /\ registry = RegistryPart(loadAllLuts(NewRegistry, tables))
  /\ loadLog = <<>>
  /\ lastCall = NoCall
  /\ created = 0
  /\ sdk = NoSdk
  /\ setupLog = <<>>

\* The same with n deployer accounts, all of them decodable and the crank's.
LoopStart(n, lut, round, w) ==
  /\ StartWith(OwnAccounts(n), lut, round, w)
  /\ deployers = FindDeployers(n)

Init ==
  \E n \in 1..MaxDeployers : \E lut \in {"none", "lut"} : LoopStart(n, lut, 1, 0)

----------------------------------------------------------------------------
(* The chain *)

\* The on-chain program starts the next round.
AdvanceRound ==
  /\ chainRound < MaxRound
  /\ chainRound' = chainRound + 1
  /\ UNCHANGED <<sharedLut, deployers, lastRoundId, deployedRounds, pc, exit,
                 board, idx, toDeploy, bi, lastEval, evalLog, batchLog,
                 lastTx, watch, history, calc, inFlight, running, accounts,
                 tables, registry, loadLog, lastCall, created, sdk,
                 setupLog>>

\* The network confirms or drops the transaction it accepted.
ChainSettle(fate) ==
  /\ lastTx = "pending"
  /\ lastTx' = fate
  /\ UNCHANGED <<chainRound, sharedLut, deployers, lastRoundId,
                 deployedRounds, pc, exit, board, idx, toDeploy, bi,
                 lastEval, evalLog, batchLog, watch, history, calc, inFlight,
                 running, accounts, tables, registry, loadLog, lastCall,
                 created, sdk, setupLog>>

----------------------------------------------------------------------------
(* runStrategy, up to the evaluation loop *)

\* getBoard returned b; the sentinel return, the rollover and the window.
ReadBoard(b) ==
  /\ tickMayStart(pc)
  /\ b.roundId = chainRound
  /\ board' = b
  /\ IF isSentinel(b.endSlot)
     THEN /\ pc' = "done"
          /\ exit' = "sentinel"
          /\ idx' = 0
          /\ UNCHANGED <<lastRoundId, deployedRounds, accounts, tables,
                         registry, loadLog, lastCall, created, sdk,
                         setupLog>>
     ELSE LET slotsRemaining == b.endSlot - b.currentSlot IN
          /\ lastRoundId' =
               IF roundChanged(lastRoundId, b.roundId) THEN b.roundId ELSE lastRoundId
          /\ deployedRounds' =
               IF roundChanged(lastRoundId, b.roundId) THEN {} ELSE deployedRounds
          /\ IF windowOpen(slotsRemaining)
             THEN /\ pc' = "eval"
                  /\ exit' = "none"
                  /\ idx' = 1
             ELSE /\ pc' = "done"
                  /\ exit' = "window"
                  /\ idx' = 0
  /\ running' = IF pc' = "eval" THEN running + 1 ELSE running
  /\ UNCHANGED <<chainRound, sharedLut, deployers, toDeploy, bi, lastEval,
                 evalLog, batchLog, lastTx, watch, history, calc, inFlight,
                 accounts, tables, registry, loadLog, lastCall, created, sdk,
                 setupLog>>

\* getBoard threw (account missing, RPC error): runStrategy throws at its
\* first line and runCrank's catch logs it.
ReadBoardError ==
  /\ tickMayStart(pc)
  /\ pc' = onStrategyError
  /\ exit' = "error"
  /\ UNCHANGED <<chainRound, sharedLut, deployers, lastRoundId,
                 deployedRounds, board, idx, toDeploy, bi, lastEval, evalLog,
                 batchLog, lastTx, watch, history, calc, inFlight, running,
                 accounts, tables, registry, loadLog, lastCall, created, sdk,
                 setupLog>>

----------------------------------------------------------------------------
(* runStrategy, the evaluation loop *)

\* What getAutodeployBalance can give for a target whose required balance is
\* q: a thrown RPC error, 0 (the auth account was never funded), q - 1, q.
BalanceError == [ok |-> FALSE, value |-> 0]
BalanceOf(v) == [ok |-> TRUE, value |-> v]

RequiredNow(i, probe) ==
  calculateRequiredBalance(deployers[i], DEPLOY_AMOUNT_LAMPORTS, SQUARES_MASK, probe)

\* One iteration of "for (const deployer of deployers)": the dedup check,
\* needsCheckpoint, calculateRequiredBalance, getAutodeployBalance and the
\* comparison; after the last iteration, "if (toDeploy.length > 0)".
\* calculateRequiredBalance also reads the auth balance (authOk: whether that
\* getBalance succeeded), but only into a local it never uses, inside a
\* try with an empty catch.
EvalDeployer(minerRead, probe, authOk, balRead) ==
  /\ pc = "eval"
  /\ idx \in 1..Len(deployers)
  /\ LET deployer == deployers[idx]
         key == deployKey(deployer.deployerAddress, board.roundId)
         checkpointRound == needsCheckpoint(minerRead)
         required == RequiredNow(idx, probe)
         task == [deployer |-> deployer, authId |-> AUTH_ID,
                  amount |-> DEPLOY_AMOUNT_LAMPORTS,
                  squaresMask |-> SQUARES_MASK,
                  checkpointRound |-> checkpointRound]
         seen == [addr |-> deployer.deployerAddress, marked |-> FALSE,
                  miner |-> minerRead.outcome, probe |-> probe,
                  balanceOk |-> balRead.ok, balance |-> balRead.value,
                  required |-> required, checkpointRound |-> checkpointRound,
                  minerCheckpointId |-> minerRead.checkpointId,
                  minerRoundId |-> minerRead.roundId,
                  authBalanceOk |-> authOk]
         collected ==
           IF key \in deployedRounds THEN toDeploy
           ELSE IF ~balanceThrows(balRead) /\ isEligible(balRead.value, required)
                THEN Append(toDeploy, task)
                ELSE toDeploy
     IN
     /\ toDeploy' = collected
     /\ bi' = 0
     /\ IF key \in deployedRounds
        THEN /\ lastEval' = [NoEval EXCEPT !.addr = deployer.deployerAddress,
                                           !.marked = TRUE]
             /\ evalLog' = Append(evalLog, "marked")
        ELSE /\ lastEval' = seen
             /\ evalLog' = Append(evalLog,
                  IF ~balRead.ok THEN "error"
                  ELSE IF balRead.value >= required THEN "funded" ELSE "short")
     /\ IF key \notin deployedRounds /\ balanceThrows(balRead)
        THEN \* getAutodeployBalance threw: runStrategy throws
             /\ pc' = onStrategyError
             /\ exit' = "error"
             /\ idx' = idx
        ELSE IF idx < Len(deployers)
        THEN /\ pc' = "eval"
             /\ exit' = exit
             /\ idx' = idx + 1
        ELSE IF Len(collected) > 0
        THEN /\ pc' = "submit"
             /\ exit' = exit
             /\ idx' = idx + 1
        ELSE /\ pc' = "done"
             /\ exit' = "done"
             /\ idx' = idx + 1
  /\ running' = IF pc' \in {"eval", "submit"} THEN running ELSE running - 1
  /\ UNCHANGED <<chainRound, sharedLut, deployers, lastRoundId,
                 deployedRounds, board, batchLog, lastTx, watch, history,
                 calc, inFlight, accounts, tables, registry, loadLog,
                 lastCall, created, sdk, setupLog>>

----------------------------------------------------------------------------
(* runStrategy, the batch loop *)

\* What the chosen submit call gives: executeBatchedAutoDeploysVersioned
\* throws before sending when the registry has no shared table; otherwise
\* sendRawTransaction returns a signature or throws.
sendOutcome(luts, shared, result) ==
  IF luts /\ shared = "none" THEN "throw" ELSE result

\* What sendRawTransaction was given: the form of the transaction, its
\* instructions and the lookup tables it was compiled with.
Tx(form, instructions, luts) ==
  [form |-> form, instructions |-> instructions, luts |-> luts]

\* Nothing was given to sendRawTransaction.
NoTx == Tx("none", <<>>, <<>>)

\* deploys.map(d => getMinerAuthPda(d.deployer.managerAddress, d.authId))
minerAuthsOf(deploys) ==
  [k \in 1..Len(deploys) |-> getMinerAuthPda(deploys[k].deployer.managerAddress)]

\* Mutant: the versioned path does not look for the shared table.
executeBatchedAutoDeploysVersionedUnguarded(reg, deploys, roundId, result) ==
  [outcome |-> result,
   tx |-> Tx("versioned", buildFullAutodeployInstructions(deploys, roundId),
             getLutsForMiners(reg, minerAuthsOf(deploys)))]

\* Crank.executeBatchedAutoDeploysVersioned; a registry that was never
\* initialised has no shared table either.
executeBatchedAutoDeploysVersioned(reg, deploys, roundId, result) ==
  [outcome |-> sendOutcome(TRUE, reg.sharedLut, result),
   tx |-> IF reg.sharedLut = "none" THEN NoTx
          ELSE Tx("versioned", buildFullAutodeployInstructions(deploys, roundId),
                  getLutsForMiners(reg, minerAuthsOf(deploys)))]

\* Crank.executeBatchedAutodeploys
executeBatchedAutodeploys(deploys, roundId, result) ==
  [outcome |-> sendOutcome(FALSE, "none", result),
   tx |-> Tx("legacy", buildFullAutodeployInstructions(deploys, roundId), <<>>)]

\* The record of the watched deployer after a batch with the given outcome.
Recorded(hist, batch, roundId, outcome) ==
  IF watch \notin TaskAddrs(batch) THEN hist
  ELSE IF outcome # "sig" THEN hist \cup {<<"failed", roundId>>}
  ELSE IF <<"accepted", roundId>> \in hist THEN hist \cup {<<"doubled", roundId>>}
  ELSE hist \cup {<<"accepted", roundId>>}

\* The rest of one iteration of the batch loop once the submit call has
\* returned a signature or thrown: the markers, the catch, i += batchSize.
SubmitReturns(result) ==
  /\ LET luts == hasLuts(sharedLut)
         batchSize == batchSizeFor(luts)
         batch == batchSlice(toDeploy, bi, batchSize)
         sent == IF luts
                 THEN executeBatchedAutoDeploysVersioned(
                        FullRegistry, batch, board.roundId, result)
                 ELSE executeBatchedAutodeploys(batch, board.roundId, result)
         outcome == sent.outcome
     IN
     /\ batchLog' = Append(batchLog,
          [batch |-> batch, roundId |-> board.roundId, result |-> outcome,
           tx |-> sent.tx])
     /\ deployedRounds' =
          IF outcome = "sig" THEN markBatch(deployedRounds, batch, board.roundId)
          ELSE deployedRounds
     /\ history' = Recorded(history, batch, board.roundId, outcome)
     /\ lastTx' = IF outcome = "sig" THEN "pending" ELSE lastTx
     /\ bi' = bi + batchSize
     /\ IF escapesBatch(outcome)
        THEN /\ pc' = onStrategyError
             /\ exit' = "error"
        ELSE IF bi + batchSize < Len(toDeploy)
        THEN /\ pc' = "submit"
             /\ exit' = exit
        ELSE /\ pc' = "done"
             /\ exit' = "done"
  /\ lastEval' = NoEval
  /\ running' = IF pc' = "submit" THEN running ELSE running - 1
  /\ UNCHANGED <<chainRound, sharedLut, deployers, lastRoundId, board, idx,
                 toDeploy, evalLog, watch, calc, accounts, tables, registry,
                 loadLog, lastCall, created, sdk, setupLog>>

\* One iteration of "for (let i = 0; i < toDeploy.length; i += batchSize)".
SubmitBatch(result) ==
  /\ pc = "submit"
  /\ SubmitReturns(result)
  /\ UNCHANGED inFlight

\* The same iteration in two steps.  The loop calls the submitter and waits
\* for its promise ...
BeginSubmit ==
  /\ pc = "submit"
  /\ pc' = awaitSend
  /\ inFlight' = inFlight + 1
  /\ UNCHANGED <<chainRound, sharedLut, deployers, lastRoundId,
                 deployedRounds, exit, board, idx, toDeploy, bi, lastEval,
                 evalLog, batchLog, lastTx, watch, history, calc, running,
                 accounts, tables, registry, loadLog, lastCall, created, sdk,
                 setupLog>>

\* ... and goes on when the call has returned a signature or thrown.
EndSubmit(result) ==
  /\ pc = "await"
  /\ inFlight > 0
  /\ inFlight' = inFlight - 1
  /\ SubmitReturns(result)

----------------------------------------------------------------------------
(* runCrank's loop *)

\* The tick is over (returned, or threw into the catch); the loop sleeps for
\* the poll interval.  The tick's locals are gone.
Sleep ==
  /\ pc = "done"
  /\ pc' = "sleep"
  /\ exit' = "none"
  /\ board' = NoBoard
  /\ idx' = 0
  /\ toDeploy' = <<>>
  /\ bi' = 0
  /\ lastEval' = NoEval
  /\ evalLog' = <<>>
  /\ batchLog' = <<>>
  /\ lastTx' = "none"
  /\ UNCHANGED <<chainRound, sharedLut, deployers, lastRoundId,
                 deployedRounds, watch, history, calc, inFlight, running,
                 accounts, tables, registry, loadLog, lastCall, created, sdk,
                 setupLog>>

----------------------------------------------------------------------------
(* Loading the registry *)

\* What one run of loadAllLuts left: the shared table and the miner tables.
Classification(reg, on) ==
  [on |-> on, sharedLut |-> reg.sharedLut, minerLuts |-> reg.minerLuts]

\* The record of a call op(arg) made on the registry `before`.
Called(op, arg, before, res) ==
  [op |-> op, arg |-> arg, prev |-> lastCall.op, prevThrew |-> lastCall.threw,
   before |-> before, threw |-> res.threw, result |-> res.result,
   events |-> res.events]

\* registry.loadAllLuts() on the registry as it is.
LoadAllLuts ==
  /\ pc = "init"
  /\ Len(loadLog) < MaxLoads
  /\ LET reg == loadAllLuts(FullRegistry, tables) IN
     /\ sharedLut' = reg.sharedLut
     /\ registry' = RegistryPart(reg)
     /\ loadLog' = Append(loadLog, Classification(reg, "same"))
     /\ lastCall' = Called("loadAllLuts", 0, FullRegistry,
                           CallResult(FALSE, "none", reg, tables, <<>>))
  /\ UNCHANGED <<chainRound, deployers, lastRoundId, deployedRounds, pc,
                 exit, board, idx, toDeploy, bi, lastEval, evalLog, batchLog,
                 lastTx, watch, history, calc, inFlight, running, accounts,
                 tables, created, sdk, setupLog>>

\* Crank.initRegistry: a new registry, then loadAllLuts.
InitRegistry ==
  /\ pc = "init"
  /\ Len(loadLog) < MaxLoads
  /\ LET reg == loadAllLuts(NewRegistry, tables) IN
     /\ sharedLut' = reg.sharedLut
     /\ registry' = RegistryPart(reg)
     /\ loadLog' = Append(loadLog, Classification(reg, "new"))
     /\ lastCall' = Called("initRegistry", 0, FullRegistry,
                           CallResult(FALSE, "none", reg, tables, <<>>))
  /\ UNCHANGED <<chainRound, deployers, lastRoundId, deployedRounds, pc,
                 exit, board, idx, toDeploy, bi, lastEval, evalLog, batchLog,
                 lastTx, watch, history, calc, inFlight, running, accounts,
                 tables, created, sdk, setupLog>>

\* Lookup tables the authority can own: the shared table, one with an
\* address more, the tables of two miners (one of them twice), a table with
\* five of the static addresses, one with nine, a table just created and one
\* whose data does not deserialize.
OwnedTables ==
  {SharedTable,
   Table("lut2", TRUE, StaticSharedAccounts \o <<1>>),
   Table("m1", TRUE, getMinerAccounts(1)),
   Table("m1b", TRUE, getMinerAccounts(1)),
   Table("m2", TRUE, getMinerAccounts(2)),
   Table("five", TRUE, SubSeq(StaticSharedAccounts, 1, 5)),
   Table("nine", TRUE, SubSeq(StaticSharedAccounts, 1, 9)),
   Table("new", TRUE, <<>>),
   Table("raw", FALSE, <<>>)}

\* What getProgramAccounts can return to loadAllLuts: distinct tables in some order.
TableScans ==
  UNION {{f \in [1..n -> OwnedTables] : \A i, j \in 1..n : f[i] = f[j] => i = j} :
           n \in 0..MaxTables}

\* A crank whose registry has just been constructed.
RegInit ==
  /\ tables \in TableScans
  /\ sharedLut = NewRegistry.sharedLut
  /\ registry = RegistryPart(NewRegistry)
  /\ loadLog = <<>>
  /\ chainRound = 1
  /\ accounts = <<>>
  /\ deployers = <<>>
  /\ lastRoundId = NULL_ID
  /\ deployedRounds = {}
  /\ pc = "init"
  /\ exit = "none"
  /\ board = NoBoard
  /\ idx = 0
  /\ toDeploy = <<>>
  /\ bi = 0
  /\ lastEval = NoEval
  /\ evalLog = <<>>
  /\ batchLog = <<>>
  /\ lastTx = "none"
  /\ watch = 0
  /\ history = {}
  /\ calc = NoCalc
  /\ inFlight = 0
  /\ running = 0
  /\ lastCall = NoCall
  /\ created = 0
  /\ sdk = NoSdk
  /\ setupLog = <<>>

RegNext == LoadAllLuts \/ InitRegistry

RegSpec == RegInit /\ [][RegNext]_vars

----------------------------------------------------------------------------
(* Setting the tables up: ensureSharedLut, ensureMinerLut, extendLut *)

\* Whether the call created a table (its address was derived and its
\* create transaction sent).
createdOne(res) == res.events # <<>> /\ res.events[1].kind = "create"

\* No table of the chain holds more than MaxTableLen addresses.
TableRoom(tabs) == \A i \in DOMAIN tabs : Len(tabs[i].addresses) <= MaxTableLen

\* The registry and the chain after a call that gave res.
RegistryEffect(op, arg, res) ==
  /\ createdOne(res) => created < MaxCreates
  /\ TableRoom(res.tables)
  /\ sharedLut' = res.reg.sharedLut
  /\ registry' = RegistryPart(res.reg)
  /\ tables' = res.tables
  /\ lastCall' = Called(op, arg, FullRegistry, res)
  /\ created' = IF createdOne(res) THEN created + 1 ELSE created

\* A call made on its own: nothing else moves.
RegistryCall(op, arg, res) ==
  /\ RegistryEffect(op, arg, res)
  /\ UNCHANGED <<chainRound, deployers, lastRoundId, deployedRounds, pc,
                 exit, board, idx, toDeploy, bi, lastEval, evalLog, batchLog,
                 lastTx, watch, history, calc, inFlight, running, accounts,
                 loadLog, sdk, setupLog>>

\* await registry.ensureSharedLut(keypair), the RPC failing as `fail` says.
EnsureSharedLut(fail) ==
  /\ pc = "init"
  /\ RegistryCall("ensureSharedLut", 0,
       ensureSharedLut(FullRegistry, tables, NewTableNames[created + 1], fail))

\* await registry.ensureMinerLut(keypair, manager, authId)
EnsureMinerLut(manager, fail) ==
  /\ pc = "init"
  /\ RegistryCall("ensureMinerLut", manager,
       ensureMinerLut(FullRegistry, tables, NewTableNames[created + 1],
                      manager, fail))

\* The addresses 201 .. 200 + n, in order.
NewAddresses(n) == [i \in 1..n |-> 200 + i]

\* await registry.extendLut(keypair, lutAddress, newAddresses) on the first
\* table of the chain, with n new addresses.
ExtendLut(n, fail) ==
  /\ pc = "init"
  /\ tables # <<>>
  /\ LET res == extendLut(tables, tables[1].address, NewAddresses(n), fail) IN
     RegistryCall("extendLut", n,
       CallResult(res.threw, "none", FullRegistry, res.tables, res.events))

\* The ways the RPC of one call can fail: not at all, at the create
\* transaction, at the chunk-th extend transaction, at the read for the cache.
FailuresAt(chunks) ==
  {NoFailure, Failure("create", "send", 0, FALSE), Failure("cache", "none", 0, FALSE)}
    \cup {Failure("create", "confirm", 0, landed) : landed \in BOOLEAN}
    \cup {Failure("extend", "send", k, FALSE) : k \in chunks}
    \cup {Failure("extend", "confirm", k, landed) : k \in chunks, landed \in BOOLEAN}

\* The tables the authority may own when the set-up starts.
SetupScans ==
  {<<>>, <<SharedTable>>, <<Table("m1", TRUE, getMinerAccounts(1))>>,
   <<SharedTable, Table("m1", TRUE, getMinerAccounts(1))>>}

SetupInit == RegInit /\ tables \in SetupScans

SetupNext ==
  \/ LoadAllLuts
  \/ InitRegistry
  \/ \E fail \in FailuresAt({1}) : EnsureSharedLut(fail)
  \/ \E manager \in 1..2, fail \in FailuresAt({1}) : EnsureMinerLut(manager, fail)

SetupSpec == SetupInit /\ [][SetupNext]_vars

----------------------------------------------------------------------------
(* setupLuts, run after run *)

\* LutRegistry.hasMinerLut(minerAuth)
hasMinerLut(reg, minerAuth) == \E e \in reg.minerLuts : e[1] = minerAuth

\* Mutant: no try/catch around ensureMinerLut.
escapesMinerUncaught(threw) == threw

\* try { await ensureMinerLut(...) } catch (err) { console.error(...) } in
\* the loop of setupLuts: whether a failed call leaves setupLuts.
escapesMiner(threw) == FALSE

\* The orders in which getProgramAccounts can return the tables.
Orders(tabs) ==
  {[i \in 1..Len(tabs) |-> tabs[f[i]]] : f \in Permutations(1..Len(tabs))}

\* One step of a setupLuts run: the run, the step ("discover", "shared" or
\* "miner"), the miner_auth (0 for the other steps), whether the registry
\* had a table for it before the step, how the step ended, the table it
\* gave and the number of transactions it sent.
SetupStep(step, role, had, outcome, table, events) ==
  [run |-> Len(loadLog), step |-> step, role |-> role, had |-> had,
   outcome |-> outcome, table |-> table,
   sent |-> Len(SelectSeq(events, LAMBDA e : e.what = "sent"))]

\* How an ensure call ended.
outcomeOf(res) ==
  IF res.threw THEN "failed" ELSE IF createdOne(res) THEN "created" ELSE "has"

\* await crank.initRegistry(): a new registry, loaded from the scan.
SetupLutsInitRegistry ==
  /\ pc = "setup"
  /\ \E scan \in Orders(tables) :
       LET reg == loadAllLuts(NewRegistry, scan) IN
       /\ sharedLut' = reg.sharedLut
       /\ registry' = RegistryPart(reg)
       /\ loadLog' = Append(loadLog, Classification(reg, "new"))
       /\ lastCall' = Called("initRegistry", 0, FullRegistry,
                             CallResult(FALSE, "none", reg, tables, <<>>))
       /\ setupLog' = Append(setupLog,
            [SetupStep("discover", 0, FALSE, "has", reg.sharedLut, <<>>)
               EXCEPT !.run = Len(loadLog) + 1])
  /\ pc' = "shared"
  /\ UNCHANGED <<chainRound, deployers, lastRoundId, deployedRounds, exit,
                 board, idx, toDeploy, bi, lastEval, evalLog, batchLog,
                 lastTx, watch, history, calc, inFlight, running, accounts,
                 tables, created, sdk>>

\* await crank.registry.ensureSharedLut(crank.keypair); an error leaves
\* setupLuts and main's catch ends the process.
SetupLutsEnsureShared(fail) ==
  /\ pc = "shared"
  /\ LET res == ensureSharedLut(FullRegistry, tables,
                                NewTableNames[created + 1], fail)
     IN /\ RegistryEffect("ensureSharedLut", 0, res)
        /\ setupLog' = Append(setupLog,
             SetupStep("shared", 0, sharedLut # "none", outcomeOf(res),
                       res.result, res.events))
        /\ pc' = IF res.threw THEN "exited" ELSE "find"
  /\ UNCHANGED <<chainRound, deployers, lastRoundId, deployedRounds, exit,
                 board, idx, toDeploy, bi, lastEval, evalLog, batchLog,
                 lastTx, watch, history, calc, inFlight, running, accounts,
                 loadLog, sdk>>

\* const deployers = await crank.findDeployers(); none: return.
SetupLutsFindDeployers ==
  /\ pc = "find"
  /\ deployers' = findDeployers(accounts)
  /\ idx' = 1
  /\ pc' = IF Len(findDeployers(accounts)) = 0 THEN "returned" ELSE "miners"
  /\ UNCHANGED <<chainRound, sharedLut, lastRoundId, deployedRounds, exit,
                 board, toDeploy, bi, lastEval, evalLog, batchLog, lastTx,
                 watch, history, calc, inFlight, running, accounts, tables,
                 registry, loadLog, lastCall, created, sdk, setupLog>>

\* One iteration of the loop over the deployers: a miner with a table is
\* skipped, for the others ensureMinerLut is called inside try/catch.
SetupLutsMiner(fail) ==
  /\ pc = "miners"
  /\ idx \in 1..Len(deployers)
  /\ LET deployer == deployers[idx]
         minerAuth == getMinerAuthPda(deployer.managerAddress)
         had == minerLutOf(FullRegistry, minerAuth) # "none"
         res == ensureMinerLut(FullRegistry, tables, NewTableNames[created + 1],
                               deployer.managerAddress, fail)
     IN IF hasMinerLut(FullRegistry, minerAuth)
        THEN /\ fail = NoFailure
             /\ setupLog' = Append(setupLog,
                  SetupStep("miner", minerAuth, had, "has",
                            minerLutOf(FullRegistry, minerAuth), <<>>))
             /\ pc' = IF idx < Len(deployers) THEN "miners" ELSE "complete"
             /\ UNCHANGED <<sharedLut, registry, tables, lastCall, created>>
        ELSE /\ RegistryEffect("ensureMinerLut", deployer.managerAddress, res)
             /\ setupLog' = Append(setupLog,
                  SetupStep("miner", minerAuth, had, outcomeOf(res),
                            res.result, res.events))
             /\ pc' = IF escapesMiner(res.threw) THEN "exited"
                      ELSE IF idx < Len(deployers) THEN "miners" ELSE "complete"
  /\ idx' = idx + 1
  /\ UNCHANGED <<chainRound, deployers, lastRoundId, deployedRounds, exit,
                 board, toDeploy, bi, lastEval, evalLog, batchLog, lastTx,
                 watch, history, calc, inFlight, running, accounts, loadLog,
                 sdk>>

\* The command is run again: a new process with a new Crank.
SetupLutsAgain ==
  /\ pc \in {"complete", "returned", "exited"}
  /\ Len(loadLog) < MaxLoads
  /\ pc' = "setup"
  /\ sharedLut' = NewRegistry.sharedLut
  /\ registry' = RegistryPart(NewRegistry)
  /\ deployers' = <<>>
  /\ idx' = 0
  /\ lastCall' = NoCall
  /\ UNCHANGED <<chainRound, lastRoundId, deployedRounds, exit, board,
                 toDeploy, bi, lastEval, evalLog, batchLog, lastTx, watch,
                 history, calc, inFlight, running, accounts, tables, loadLog,
                 created, sdk, setupLog>>

\* The command is started with some deployer accounts and tables on chain.
SetupLutsInit ==
  /\ accounts \in {OwnAccounts(n) : n \in 0..MaxMiners}
  /\ tables \in SetupScans
  /\ pc = "setup"
  /\ sharedLut = NewRegistry.sharedLut
  /\ registry = RegistryPart(NewRegistry)
  /\ deployers = <<>>
  /\ idx = 0
  /\ loadLog = <<>>
  /\ lastCall = NoCall
  /\ created = 0
  /\ setupLog = <<>>
  /\ chainRound = 1
  /\ lastRoundId = NULL_ID
  /\ deployedRounds = {}
  /\ exit = "none"
  /\ board = NoBoard
  /\ toDeploy = <<>>
  /\ bi = 0
  /\ lastEval = NoEval
  /\ evalLog = <<>>
  /\ batchLog = <<>>
  /\ lastTx = "none"
  /\ watch = 0
  /\ history = {}
  /\ calc = NoCalc
  /\ inFlight = 0
  /\ running = 0
  /\ sdk = NoSdk

SetupLutsNext ==
  \/ SetupLutsInitRegistry
  \/ \E fail \in FailuresAt({1}) : SetupLutsEnsureShared(fail)
  \/ SetupLutsFindDeployers
  \/ \E fail \in FailuresAt({1}) : SetupLutsMiner(fail)
  \/ SetupLutsAgain

SetupLutsSpec == SetupLutsInit /\ [][SetupLutsNext]_vars

\* extendLut called on its own, on a table that is empty at first, and the
\* calls that reach it through ensureSharedLut and ensureMinerLut.
ExtendInit == RegInit /\ tables = <<Table("new", TRUE, <<>>)>>

\* Either extendLut is called on the empty table, or the registry is set up.
ExtendNext ==
  \/ /\ lastCall.op \in {"none", "extendLut"}
     /\ tables[1].addresses = <<>>
     /\ \E n \in 0..MaxNew, fail \in FailuresAt(1..3) : ExtendLut(n, fail)
  \/ /\ lastCall.op # "extendLut"
     /\ \E fail \in FailuresAt({1}) : EnsureSharedLut(fail)
  \/ /\ lastCall.op # "extendLut"
     /\ \E manager \in 1..2, fail \in FailuresAt({1}) : EnsureMinerLut(manager, fail)

ExtendSpec == ExtendInit /\ [][ExtendNext]_vars

----------------------------------------------------------------------------
(* The process against the chain *)

BoardAt(e, r) == [roundId |-> chainRound, endSlot |-> e, currentSlot |-> RoundEndSlot - r]

Boards ==
  {BoardAt(e, r) : e \in {U64_MAX, RoundEndSlot},
                   r \in {0 - 5, MIN_SLOTS_TO_DEPLOY - 1, MIN_SLOTS_TO_DEPLOY,
                          DEPLOY_SLOTS_BEFORE_END, DEPLOY_SLOTS_BEFORE_END + 1}}

ProbeReads == {"exists", "missing", "error"}

\* The ORE miner account as the two reads of one evaluation see it.
AccountViews ==
  {<<MinerAbsent, "missing">>, <<MinerError, "error">>, <<MinerGarbled, "exists">>,
   <<MinerCurrent, "exists">>, <<MinerBehind, "exists">>}

BalanceReads(q) == {BalanceError, BalanceOf(0), BalanceOf(q - 1), BalanceOf(q)}

Next ==
  \/ AdvanceRound
  \/ \E fate \in {"confirmed", "dropped"} : ChainSettle(fate)
  \/ \E b \in Boards : ReadBoard(b)
  \/ ReadBoardError
  \/ /\ pc = "eval"
     /\ \E v \in AccountViews : \E bal \in BalanceReads(RequiredNow(idx, v[2])) :
          \E authOk \in BOOLEAN : EvalDeployer(v[1], v[2], authOk, bal)
  \/ \E result \in {"sig", "throw"} : SubmitBatch(result)
  \/ Sleep

Spec == Init /\ [][Next]_vars

----------------------------------------------------------------------------
(* The loop with one deployer's submissions recorded, over several rounds *)

TrackInit ==
  \E n \in 1..MaxDeployers : \E lut \in {"none", "lut"} : \E w \in 1..n :
    LoopStart(n, lut, 1, w)

TrackBoards ==
  {BoardAt(U64_MAX, DEPLOY_SLOTS_BEFORE_END),
   BoardAt(RoundEndSlot, DEPLOY_SLOTS_BEFORE_END),
   BoardAt(RoundEndSlot, DEPLOY_SLOTS_BEFORE_END + 1)}

TrackNext ==
  \/ AdvanceRound
  \/ \E b \in TrackBoards : ReadBoard(b)
  \/ /\ pc = "eval"
     /\ \E bal \in {BalanceOf(RequiredNow(idx, "exists") - 1),
                    BalanceOf(RequiredNow(idx, "exists"))} :
          EvalDeployer(MinerCurrent, "exists", TRUE, bal)
  \/ \E result \in {"sig", "throw"} : SubmitBatch(result)
  \/ Sleep

TrackSpec == TrackInit /\ [][TrackNext]_vars

----------------------------------------------------------------------------
(* The loop, and the two submit methods called on their own *)

\* A DeployTask for every deployer of the list, none with a checkpoint.
TasksFor(list) ==
  [k \in 1..Len(list) |->
     [deployer |-> list[k], authId |-> AUTH_ID,
      amount |-> DEPLOY_AMOUNT_LAMPORTS, squaresMask |-> SQUARES_MASK,
      checkpointRound |-> NULL_ID]]

\* crank.executeBatchedAutoDeploysVersioned(deploys, roundId) or
\* crank.executeBatchedAutodeploys(deploys, roundId) called once, outside
\* runStrategy, for all deployers.
ExecuteDirect(versioned, result) ==
  /\ pc = "sleep"
  /\ lastCall.op = "none"
  /\ LET deploys == TasksFor(deployers)
         sent == IF versioned
                 THEN executeBatchedAutoDeploysVersioned(
                        FullRegistry, deploys, chainRound, result)
                 ELSE executeBatchedAutodeploys(deploys, chainRound, result)
     IN lastCall' =
          Called(IF versioned THEN "executeBatchedAutoDeploysVersioned"
                 ELSE "executeBatchedAutodeploys",
                 Len(deploys), FullRegistry,
                 CallResult(sent.outcome = "throw", sent.outcome, FullRegistry,
                            tables, IF sent.tx = NoTx THEN <<>> ELSE <<sent.tx>>))
  /\ UNCHANGED <<chainRound, sharedLut, deployers, lastRoundId,
                 deployedRounds, pc, exit, board, idx, toDeploy, bi,
                 lastEval, evalLog, batchLog, lastTx, watch, history, calc,
                 inFlight, running, accounts, tables, registry, loadLog,
                 created, sdk, setupLog>>

SendInit ==
  \E n \in 1..MaxDeployers : \E lut \in {"none", "lut"} : LoopStart(n, lut, 1, 0)

SendNext ==
  \/ ReadBoard(BoardAt(RoundEndSlot, DEPLOY_SLOTS_BEFORE_END))
  \/ /\ pc = "eval"
     /\ \E bal \in {BalanceOf(RequiredNow(idx, "exists") - 1),
                    BalanceOf(RequiredNow(idx, "exists"))} :
          EvalDeployer(MinerCurrent, "exists", TRUE, bal)
  \/ \E result \in {"sig", "throw"} : SubmitBatch(result)
  \/ Sleep
  \/ \E versioned \in BOOLEAN, result \in {"sig", "throw"} :
       ExecuteDirect(versioned, result)

SendSpec == SendInit /\ [][SendNext]_vars

----------------------------------------------------------------------------
(* The loop with enough deployers to fill a batch, inside one window *)

BatchInit ==
  \E n \in 1..MaxBatchDeployers : \E lut \in {"none", "lut"} : LoopStart(n, lut, 1, 0)

BatchNext ==
  \/ ReadBoard(BoardAt(RoundEndSlot, DEPLOY_SLOTS_BEFORE_END))
  \/ /\ pc = "eval"
     /\ \E bal \in {BalanceOf(RequiredNow(idx, "exists") - 1),
                    BalanceOf(RequiredNow(idx, "exists"))} :
          EvalDeployer(MinerCurrent, "exists", TRUE, bal)
  \/ \E result \in {"sig", "throw"} : SubmitBatch(result)
  \/ Sleep

BatchSpec == BatchInit /\ [][BatchNext]_vars

----------------------------------------------------------------------------
(* The loop while one round's window stays open and every target is funded *)

LiveInit ==
  \E n \in 1..MaxDeployers : \E lut \in {"none", "lut"} : \E w \in 1..n :
    LoopStart(n, lut, 1, w)

LiveNext ==
  \/ \E r \in {MIN_SLOTS_TO_DEPLOY, DEPLOY_SLOTS_BEFORE_END} :
       ReadBoard(BoardAt(RoundEndSlot, r))
  \/ /\ pc = "eval"
     /\ \E v \in {<<MinerAbsent, "missing">>, <<MinerBehind, "exists">>} :
          EvalDeployer(v[1], v[2], TRUE, BalanceOf(RequiredNow(idx, v[2])))
  \/ \E result \in {"sig", "throw"} : SubmitBatch(result)
  \/ Sleep

\* The loop never stops (while (true) with a timer), and the network accepts
\* a submission again and again.
LiveSpec ==
  /\ LiveInit
  /\ [][LiveNext]_vars
  /\ WF_vars(LiveNext)
  /\ SF_vars(SubmitBatch("sig"))

----------------------------------------------------------------------------
(* The loop with each submit call as two steps: the call and its return *)

SeqInit ==
  \E n \in 1..MaxDeployers : \E lut \in {"none", "lut"} : LoopStart(n, lut, 1, 0)

SeqNext ==
  \/ ReadBoard(BoardAt(RoundEndSlot, DEPLOY_SLOTS_BEFORE_END))
  \/ /\ pc = "eval"
     /\ \E bal \in {BalanceOf(RequiredNow(idx, "exists") - 1),
                    BalanceOf(RequiredNow(idx, "exists"))} :
          EvalDeployer(MinerCurrent, "exists", TRUE, bal)
  \/ BeginSubmit
  \/ \E result \in {"sig", "throw"} : EndSubmit(result)
  \/ Sleep

SeqSpec == SeqInit /\ [][SeqNext]_vars

----------------------------------------------------------------------------
(* The loop for ever, with failing reads, undecodable miners and failing sends *)

LoopInit ==
  \E n \in 1..MaxDeployers : \E lut \in {"none", "lut"} : \E w \in 1..n :
    LoopStart(n, lut, 1, w)

LoopNext ==
  \/ \E r \in {DEPLOY_SLOTS_BEFORE_END, DEPLOY_SLOTS_BEFORE_END + 1} :
       ReadBoard(BoardAt(RoundEndSlot, r))
  \/ ReadBoardError
  \/ /\ pc = "eval"
     /\ \E m \in {MinerCurrent, MinerGarbled} :
        \E bal \in {BalanceError, BalanceOf(RequiredNow(idx, "exists"))} :
          EvalDeployer(m, "exists", TRUE, bal)
  \/ \E result \in {"sig", "throw"} : SubmitBatch(result)
  \/ Sleep

\* The event loop runs every timer and every continuation whose promise has
\* settled, and every RPC call returns or throws.
LoopSpec == LoopInit /\ [][LoopNext]_vars /\ WF_vars(LoopNext)

----------------------------------------------------------------------------
(* The loop after a discovery that met foreign and undecodable accounts *)

AccountKinds == {"ours", "other", "garbled"}

\* What getProgramAccounts can return to findDeployers.
Scans ==
  UNION {{[i \in 1..n |-> ProgramAccount(i, f[i])] : f \in [1..n -> AccountKinds]} :
           n \in 0..MaxAccounts}

ScanInit == \E accts \in Scans : StartWith(accts, "none", 1, 0)

ScanNext ==
  \/ ReadBoard(BoardAt(RoundEndSlot, DEPLOY_SLOTS_BEFORE_END))
  \/ /\ pc = "eval"
     /\ \E m \in {MinerCurrent, MinerBehind, MinerGarbled} :
        \E bal \in {BalanceOf(RequiredNow(idx, "exists") - 1),
                    BalanceOf(RequiredNow(idx, "exists"))} :
          EvalDeployer(m, "exists", TRUE, bal)
  \/ \E result \in {"sig", "throw"} : SubmitBatch(result)
  \/ Sleep

ScanSpec == ScanInit /\ [][ScanNext]_vars

----------------------------------------------------------------------------
(* calculateRequiredBalance on its own *)

FormulaInit == LoopStart(1, "none", 1, 0)

\* One call of calculateRequiredBalance(deployer, authId, amount, mask), the
\* probe of the miner account giving `probe`.
Calculate(amount, mask, bpsFee, flatFee, probe) ==
  /\ ~calc.called
  /\ calc' = [called |-> TRUE, amount |-> amount, mask |-> mask,
              bpsFee |-> bpsFee, flatFee |-> flatFee, probe |-> probe,
              required |-> calculateRequiredBalance(
                 [deployerAddress |-> 1, managerAddress |-> 1,
                  bpsFee |-> bpsFee, flatFee |-> flatFee],
                 amount, mask, probe)]
  /\ UNCHANGED <<chainRound, sharedLut, deployers, lastRoundId,
                 deployedRounds, pc, exit, board, idx, toDeploy, bi,
                 lastEval, evalLog, batchLog, lastTx, watch, history,
                 inFlight, running, accounts, tables, registry, loadLog,
                 lastCall, created, sdk, setupLog>>

Amounts == {0, 1, 7, DEPLOY_AMOUNT_LAMPORTS}
Masks == {0, 1, 6, 21845, 16777216, 16777215, SQUARES_MASK}
BpsFees == {0, 1, 333, 500}
FlatFees == {0, 2000}

FormulaNext ==
  \E a \in Amounts : \E m \in Masks : \E b \in BpsFees : \E f \in FlatFees :
    \E p \in ProbeReads : Calculate(a, m, b, f, p)

FormulaSpec == FormulaInit /\ [][FormulaNext]_vars

----------------------------------------------------------------------------
(* The helpers of the SDK on their own *)

\* A deploy config for the manager: its own auth id, amount and mask.
DeployConfig(manager) ==
  [manager |-> manager, authId |-> manager % 2, amount |-> 1000 * manager,
   squaresMask |-> 2 ^ manager - 1]

\* n deploy configs for the managers from `first` on, in rising or falling order.
DeployConfigs(n, first, rising) ==
  [k \in 1..n |-> DeployConfig(IF rising THEN first + k - 1 ELSE first + n - k)]

\* buildBatchedAutodeployInstructions(executor, deploys, roundId), called once.
BuildBatched(deploys, roundId) ==
  /\ sdk.op = "none"
  /\ LET built == buildBatchedAutodeployInstructions(deploys, roundId) IN
     sdk' = [op |-> "buildBatchedAutodeployInstructions", input |-> deploys,
             roundId |-> roundId, threw |-> built.threw,
             output |-> built.instructions, back |-> <<>>, bits |-> 0]
  /\ UNCHANGED <<chainRound, sharedLut, deployers, lastRoundId,
                 deployedRounds, pc, exit, board, idx, toDeploy, bi,
                 lastEval, evalLog, batchLog, lastTx, watch, history, calc,
                 inFlight, running, accounts, tables, registry, loadLog,
                 lastCall, created, setupLog>>

\* squaresToMask(squares), then maskToSquares and countBits on its result.
SquaresToMask(squares) ==
  /\ sdk.op = "none"
  /\ LET made == squaresToMask(squares) IN
     sdk' = [op |-> "squaresToMask", input |-> squares, roundId |-> 0,
             threw |-> made.threw, output |-> made.mask,
             back |-> IF made.threw THEN <<>> ELSE maskToSquares(made.mask),
             bits |-> IF made.threw THEN 0 ELSE countBits(made.mask)]
  /\ UNCHANGED <<chainRound, sharedLut, deployers, lastRoundId,
                 deployedRounds, pc, exit, board, idx, toDeploy, bi,
                 lastEval, evalLog, batchLog, lastTx, watch, history, calc,
                 inFlight, running, accounts, tables, registry, loadLog,
                 lastCall, created, setupLog>>

\* maskToSquares(mask), then squaresToMask on its result.
MaskToSquares(mask) ==
  /\ sdk.op = "none"
  /\ LET squares == maskToSquares(mask) IN
     sdk' = [op |-> "maskToSquares", input |-> mask, roundId |-> 0,
             threw |-> squaresToMask(squares).threw, output |-> squares,
             back |-> squaresToMask(squares).mask, bits |-> countBits(mask)]
  /\ UNCHANGED <<chainRound, sharedLut, deployers, lastRoundId,
                 deployedRounds, pc, exit, board, idx, toDeploy, bi,
                 lastEval, evalLog, batchLog, lastTx, watch, history, calc,
                 inFlight, running, accounts, tables, registry, loadLog,
                 lastCall, created, setupLog>>

\* calculateDeployerFee(totalDeployed, bpsFee, flatFee), and next to it the
\* deployer fee inside the crank's required balance for one square of
\* totalDeployed lamports: what the fee terms add to the required balance.
DeployerFee(totalDeployed, bpsFee, flatFee) ==
  /\ sdk.op = "none"
  /\ LET charging == [deployerAddress |-> 1, managerAddress |-> 1,
                      bpsFee |-> bpsFee, flatFee |-> flatFee]
         free == [charging EXCEPT !.bpsFee = 0, !.flatFee = 0]
     IN sdk' = [op |-> "calculateDeployerFee",
                input |-> <<totalDeployed, bpsFee, flatFee>>, roundId |-> 0,
                threw |-> FALSE,
                output |-> calculateDeployerFee(totalDeployed, bpsFee, flatFee),
                back |-> calculateRequiredBalance(charging, totalDeployed, 1, "exists")
                           - calculateRequiredBalance(free, totalDeployed, 1, "exists"),
                bits |-> 0]
  /\ UNCHANGED <<chainRound, sharedLut, deployers, lastRoundId,
                 deployedRounds, pc, exit, board, idx, toDeploy, bi,
                 lastEval, evalLog, batchLog, lastTx, watch, history, calc,
                 inFlight, running, accounts, tables, registry, loadLog,
                 lastCall, created, setupLog>>

\* Deployed totals up to 0.1 SOL, fees up to 100 %.
FeeTotals == {0, 1, 9999, 10000, 250000, 100000000}
FeeBps == {0, 1, 333, 500, 10000}

\* The array of the given length whose true entries are those at the
\* (0-based) indexes in `on`.
SquaresOn(len, on) == [i \in 1..len |-> (i - 1) \in on]

\* Arrays of 25 booleans with at most two entries true, or at most two
\* false, and arrays of other lengths.
SquareArrays ==
  LET few == {{}} \cup {{i, j} : i, j \in 0..24}
  IN {SquaresOn(25, on) : on \in few}
       \cup {SquaresOn(25, (0..24) \ on) : on \in few}
       \cup {SquaresOn(len, 0..(len - 1)) : len \in {0, 1, 24, 26}}

\* Masks with one or two bits among bits 0..25, no bit, and all 25 bits.
SquareMasks ==
  {0, SQUARES_MASK} \cup {2 ^ i : i \in 0..25}
    \cup {2 ^ i + 2 ^ j : i, j \in 0..25}

SdkInit == FormulaInit

SdkNext ==
  \/ \E n \in 0..MaxSdkDeploys, first \in 1..3, rising \in BOOLEAN, r \in 1..MaxRound :
       BuildBatched(DeployConfigs(n, first, rising), r)
  \/ \E squares \in SquareArrays : SquaresToMask(squares)
  \/ \E mask \in SquareMasks : MaskToSquares(mask)
  \/ \E total \in FeeTotals, bps \in FeeBps, flat \in FlatFees :
       DeployerFee(total, bps, flat)

SdkSpec == SdkInit /\ [][SdkNext]_vars

----------------------------------------------------------------------------
(* Properties *)

Rounds == 1..(MaxRound + 1)

\* Addresses handed to the submitter so far in this tick.
Handed == UNION {TaskAddrs(batchLog[j].batch) : j \in 1..Len(batchLog)}

SlotsRemaining == board.endSlot - board.currentSlot

\* C1 (dedup): within one round, whatever the number of ticks that find it
\* eligible, the watched (account, auth id) is in at most one batch whose
\* submission was accepted.
C1_Dedup == \A r \in Rounds : <<"doubled", r>> \notin history

\* A later tick of the same round meets the accepted target and skips it.
C1_Witness ==
  /\ lastEval.marked
  /\ lastEval.addr = watch
  /\ <<"accepted", board.roundId>> \in history

\* C2 (marking on accept): of every batch handed to the submitter in the tick,
\* all tasks are marked if the call returned a signature and none is if it
\* threw, whatever happened to the other batches and whatever the network
\* does later with the transaction.
C2_MarkingOnAccept ==
  \A j \in 1..Len(batchLog) :
    LET e == batchLog[j]
        keys == {<<a, e.roundId>> : a \in TaskAddrs(e.batch)}
    IN /\ Len(e.batch) > 0
       /\ e.result = "sig" => keys \subseteq deployedRounds
       /\ e.result # "sig" => keys \cap deployedRounds = {}

\* One batch failed, another was accepted and marked, and the accepted
\* transaction was dropped by the network afterwards.
C2_Witness ==
  /\ \E j \in 1..Len(batchLog) : batchLog[j].result = "throw"
  /\ \E j \in 1..Len(batchLog) : batchLog[j].result = "sig"
  /\ lastTx = "dropped"

\* A step in which a tick reads the board and observes its round id.
ObservesRound == pc = "sleep" /\ board' # NoBoard

\* C3 as worded (round rollover reset): whenever a tick observes a round id
\* different from the stored one, the markers are cleared and the stored id is
\* updated.
C3_Original ==
  [][(ObservesRound /\ board'.roundId # lastRoundId)
       => (deployedRounds' = {} /\ lastRoundId' = board'.roundId)]_vars

\* C3, amended: a tick that observes an end slot other than the sentinel and a
\* round id different from the stored one clears the markers and stores the
\* id; no other step removes a marker or changes the stored id.
C3_RolloverReset ==
  [][IF ObservesRound /\ board'.endSlot # U64_MAX /\ board'.roundId # lastRoundId
     THEN deployedRounds' = {} /\ lastRoundId' = board'.roundId
     ELSE deployedRounds \subseteq deployedRounds' /\ lastRoundId' = lastRoundId]_vars

\* Round 2 was observed and the marker the watched deployer got in round 1 is gone.
C3_Witness ==
  /\ <<"accepted", 1>> \in history
  /\ lastRoundId = 2
  /\ deployedRounds = {}
  /\ pc = "eval"

\* C4 (rollover scheduling): in a tick that ran to its end, every target found
\* funded was handed to the submitter, and the watched target was skipped as
\* marked only if a batch with it was accepted in the round the tick observed;
\* markers of an earlier round never suppress it.
C4_RolloverScheduling ==
  (pc = "done" /\ exit = "done") =>
    \A i \in 1..Len(evalLog) :
      /\ evalLog[i] = "funded" => deployers[i].deployerAddress \in Handed
      /\ (evalLog[i] = "marked" /\ deployers[i].deployerAddress = watch)
           => <<"accepted", board.roundId>> \in history

\* The watched target, accepted in round 1, is funded and accepted again in round 2.
C4_Witness ==
  /\ pc = "done"
  /\ board.roundId = 2
  /\ <<"accepted", 1>> \in history
  /\ <<"accepted", 2>> \in history
  /\ watch \in Handed

\* C5 (window gating): with slotsRemaining = endSlot - currentSlot as read at
\* the start of the tick, nothing is evaluated or submitted at 151 or below 10
\* (negative included), and at exactly 150 the tick evaluates the targets and
\* hands every funded one to the submitter.
C5_WindowGating ==
  (board # NoBoard /\ board.endSlot # U64_MAX) =>
    /\ (SlotsRemaining = 151 \/ SlotsRemaining < 10) =>
         (pc = "done" /\ evalLog = <<>> /\ batchLog = <<>>)
    /\ SlotsRemaining = 150 =>
         /\ pc \in {"eval", "submit", "done"}
         /\ pc = "done" => Len(evalLog) >= 1
         /\ (pc = "done" /\ exit = "done") =>
              \A i \in 1..Len(evalLog) :
                evalLog[i] = "funded" => deployers[i].deployerAddress \in Handed

\* At exactly 150 slots before the end a batch was submitted and accepted.
C5_Witness ==
  /\ board # NoBoard
  /\ SlotsRemaining = 150
  /\ Len(batchLog) >= 1
  /\ batchLog[1].result = "sig"

\* Number of bits set among bits 0..24 of a mask.
BitsSet(mask) == Cardinality({b \in 0..24 : (mask \div (2 ^ b)) % 2 = 1})

\* C6 as worded (balance formula): with the working sub-account existing, the
\* required balance is R + C + A*k + floor(A*k*B/10000) + F.
C6_Original ==
  (calc.called /\ calc.probe = "exists") =>
    calc.required =
      890880 + 10000 + calc.amount * BitsSet(calc.mask)
        + (calc.amount * BitsSet(calc.mask) * calc.bpsFee) \div 10000 + calc.flatFee

\* C6, amended: the required balance also holds the protocol deploy fee of
\* 1000 lamports: R + C + A*k + floor(A*k*B/10000) + F + 1000, which is
\* 1166380 for R=890880, C=10000, A=10000, mask 0x1FFFFFF, B=500, F=2000.
C6_BalanceFormula ==
  (calc.called /\ calc.probe = "exists") =>
    /\ calc.required =
         890880 + 10000 + calc.amount * BitsSet(calc.mask)
           + (calc.amount * BitsSet(calc.mask) * calc.bpsFee) \div 10000
           + calc.flatFee + 1000
    /\ (calc.amount = 10000 /\ calc.mask = 33554431 /\ calc.bpsFee = 500
          /\ calc.flatFee = 2000) => calc.required = 1166380

\* The call with the inputs of the example.
C6_Witness ==
  /\ calc.called
  /\ calc.probe = "exists"
  /\ calc.amount = 10000
  /\ calc.mask = 33554431
  /\ calc.bpsFee = 500
  /\ calc.flatFee = 2000
  /\ calc.required = 1166380

\* C7 (batch size bound): no batch handed to the submitter has more than 7
\* tasks when the registry has a shared table, nor more than 2 when it has none.
C7_BatchSizeBound ==
  \A j \in 1..Len(batchLog) :
    Len(batchLog[j].batch) <= (IF sharedLut # "none" THEN 7 ELSE 2)

\* Eight tasks with a shared table: a full batch of 7, then the rest.
C7_Witness ==
  /\ sharedLut # "none"
  /\ Len(toDeploy) = 8
  /\ Len(batchLog) = 2
  /\ Len(batchLog[1].batch) = 7
  /\ Len(batchLog[2].batch) = 1

\* C8 (retry after failure): while ticks keep coming inside the window of the
\* round, the targets stay funded and the network goes on accepting
\* submissions, a target whose batch failed is handed over again and is
\* eventually marked for the round.
C8_RetryAfterFailure ==
  (<<"failed", 1>> \in history) ~> (<<watch, 1>> \in deployedRounds)

\* The watched target was in a failed batch and, in a later tick, in an accepted one.
C8_Witness ==
  /\ <<"failed", 1>> \in history
  /\ <<"accepted", 1>> \in history
  /\ <<watch, 1>> \in deployedRounds

Evaluated == lastEval.addr # 0 /\ ~lastEval.marked

\* C9 (eligibility threshold): an evaluated target gets a DeployTask if and
\* only if its balance is at least the required balance; with less it is
\* passed over and the tick goes on without an error.
C9_EligibilityThreshold ==
  (Evaluated /\ lastEval.balanceOk) =>
    /\ (lastEval.addr \in TaskAddrs(toDeploy)) <=> (lastEval.balance >= lastEval.required)
    /\ exit # "error"

\* A balance exactly equal to the required balance produced a task.
C9_Witness ==
  /\ Evaluated
  /\ lastEval.balanceOk
  /\ lastEval.balance = lastEval.required
  /\ lastEval.addr \in TaskAddrs(toDeploy)

\* C10 as worded (missing identity record): a pair whose on-chain miner record
\* does not exist yet is not eligible and is skipped.
C10_Original ==
  (Evaluated /\ lastEval.miner = "absent") => lastEval.addr \notin TaskAddrs(toDeploy)

\* C10, amended: a miner record that is absent raises no error and folds no
\* checkpoint; when the probe finds the account missing, the miner rent
\* estimate is added to the required balance; the pair is skipped exactly when
\* its balance is below that, as a never funded pair (balance 0) always is.
C10_MissingRecord ==
  (Evaluated /\ lastEval.miner = "absent") =>
    /\ lastEval.checkpointRound = NULL_ID
    /\ lastEval.probe = "missing" =>
         lastEval.required =
           2500000 + calculateRequiredBalance(Deployer(lastEval.addr),
                       DEPLOY_AMOUNT_LAMPORTS, SQUARES_MASK, "exists")
    /\ lastEval.balanceOk =>
         /\ exit # "error"
         /\ (lastEval.addr \in TaskAddrs(toDeploy)) <=> (lastEval.balance >= lastEval.required)
         /\ lastEval.balance = 0 => lastEval.addr \notin TaskAddrs(toDeploy)

\* A pair without a miner account whose balance covers the rent as well got a task.
C10_Witness ==
  /\ Evaluated
  /\ lastEval.miner = "absent"
  /\ lastEval.probe = "missing"
  /\ lastEval.addr \in TaskAddrs(toDeploy)

\* C11 (checkpoint folding): an evaluated target's task carries a checkpoint
\* round if and only if the miner record was read and its checkpoint id is
\* strictly below its round id, and then it is the miner's own round id; in
\* every instruction built for a batch the checkpoint round is the task's
\* checkpoint round when it has one and the board's round id otherwise.
C11_CheckpointFolding ==
  /\ (Evaluated /\ lastEval.addr \in TaskAddrs(toDeploy)) =>
       LET task == toDeploy[Len(toDeploy)]
           due == /\ lastEval.miner = "ok"
                  /\ lastEval.minerCheckpointId < lastEval.minerRoundId
       IN /\ task.deployer.deployerAddress = lastEval.addr
          /\ (task.checkpointRound # NULL_ID) <=> due
          /\ due => task.checkpointRound = lastEval.minerRoundId
  /\ \A j \in 1..Len(batchLog) :
       LET e == batchLog[j] IN
       /\ Len(e.tx.instructions) = Len(e.batch) + 2
       /\ \A k \in 1..Len(e.batch) :
            /\ e.tx.instructions[k + 2].manager = e.batch[k].deployer.managerAddress
            /\ e.tx.instructions[k + 2].roundId = e.roundId
            /\ e.tx.instructions[k + 2].checkpointRoundId =
                 (IF e.batch[k].checkpointRound # NULL_ID
                  THEN e.batch[k].checkpointRound ELSE e.roundId)

\* In round 2 one batch holds a task that checkpoints the miner's round 1 and
\* a task without a checkpoint, whose instruction names round 2.
C11_Witness ==
  /\ board.roundId = 2
  /\ \E j \in 1..Len(batchLog) :
       LET e == batchLog[j] IN
       /\ \E k \in 1..Len(e.batch) :
            /\ e.batch[k].checkpointRound = 1
            /\ e.tx.instructions[k + 2].checkpointRoundId = 1
       /\ \E k \in 1..Len(e.batch) :
            /\ e.batch[k].checkpointRound = NULL_ID
            /\ e.tx.instructions[k + 2].checkpointRoundId = 2

\* C12 (sentinel no-op): a tick that reads the sentinel end slot ends at once:
\* it evaluates no account, submits no batch, and leaves the stored round id
\* and the dedup set as they were, also when the observed round id differs
\* from the stored one.
C12_SentinelNoOp ==
  /\ []((board # NoBoard /\ board.endSlot = U64_MAX) =>
          (pc = "done" /\ toDeploy = <<>> /\ evalLog = <<>> /\ batchLog = <<>>))
  /\ [][(ObservesRound /\ board'.endSlot = U64_MAX) =>
          (lastRoundId' = lastRoundId /\ deployedRounds' = deployedRounds)]_vars

\* The tick read the sentinel in round 2 while round 1 is stored and marked.
C12_Witness ==
  /\ board.endSlot = U64_MAX
  /\ board.roundId = 2
  /\ lastRoundId = 1
  /\ deployedRounds # {}
  /\ pc = "done"

\* C13 (sequential batches): at no moment are two submit calls outstanding,
\* and a submit call is made only when every earlier call of the tick has
\* returned a signature or thrown, its result is known and, if it was a
\* signature, the markers of its batch are in the dedup set.
C13_SequentialBatches ==
  /\ [](inFlight <= 1)
  /\ [][inFlight' > inFlight =>
          /\ inFlight = 0
          /\ bi = Len(batchLog) * batchSizeFor(hasLuts(sharedLut))
          /\ \A j \in 1..Len(batchLog) :
               /\ batchLog[j].result \in {"sig", "throw"}
               /\ batchLog[j].result = "sig" =>
                    \A a \in TaskAddrs(batchLog[j].batch) :
                      <<a, batchLog[j].roundId>> \in deployedRounds]_vars

\* The second submit call of a tick is outstanding; the first one was accepted.
C13_Witness ==
  /\ inFlight = 1
  /\ pc = "await"
  /\ Len(batchLog) = 1
  /\ batchLog[1].result = "sig"
  /\ bi < Len(toDeploy)

\* C14 (no parallel ticks): at most one call of runStrategy is ever in
\* progress; a call is made only when no other is in progress, the previous
\* one has returned or thrown and the timer after it has run out (its locals
\* are gone and no submit call is outstanding); the timer is started only
\* after a tick completed.
C14_NoParallelTicks ==
  /\ [](running <= 1)
  /\ [](running = 1 <=> pc \in {"eval", "submit", "await"})
  /\ [][(running' > running \/ (pc = "sleep" /\ pc' # "sleep")) =>
          /\ pc = "sleep"
          /\ running = 0
          /\ inFlight = 0
          /\ exit = "none"
          /\ toDeploy = <<>>]_vars
  /\ [][(pc # "sleep" /\ pc' = "sleep") => (pc = "done" /\ running = 0)]_vars

\* A tick is in progress after an earlier tick marked a target.
C14_Witness ==
  /\ running = 1
  /\ pc = "eval"
  /\ idx = 1
  /\ deployedRounds # {}

\* C15 (per-batch failure isolation): a submit call that throws does not end
\* the tick and raises no tick error: while tasks remain the batch loop goes
\* on, and when the tick is over every task it collected was handed to the
\* submitter, in ceil(tasks / batchSize) batches, whatever their results.
C15_FailureIsolation ==
  LET size == batchSizeFor(hasLuts(sharedLut)) IN
  /\ batchLog # <<>> => (exit # "error" /\ pc \in {"submit", "done"})
  /\ (batchLog # <<>> /\ bi < Len(toDeploy)) => pc = "submit"
  /\ (pc = "done" /\ toDeploy # <<>>) =>
       /\ Handed = TaskAddrs(toDeploy)
       /\ Len(batchLog) = (Len(toDeploy) + size - 1) \div size

\* The first batch of the tick failed, three more were handed over after it,
\* one of them accepted.
C15_Witness ==
  /\ pc = "done"
  /\ Len(batchLog) = 4
  /\ batchLog[1].result = "throw"
  /\ batchLog[3].result = "sig"
  /\ Handed = TaskAddrs(toDeploy)

\* C16 as worded (read failure): whenever a balance query of the tick has
\* failed, the tick has ended early with an error and without a batch.
C16_Original ==
  (Evaluated /\ (~lastEval.balanceOk \/ ~lastEval.authBalanceOk)) =>
    (pc = "done" /\ exit = "error" /\ batchLog = <<>>)

\* C16, amended: a tick in which getBoard (board account or current slot) or
\* getAutodeployBalance fails ends at once with the error, without a batch
\* handed to the submitter; markers are only ever added together with a
\* submitted batch, so such a tick adds none; the loop then goes to its timer
\* and on to the next tick.  The balance query inside
\* calculateRequiredBalance is different: its failure is swallowed and the
\* evaluation goes on.
C16_ReadFailure ==
  /\ [](exit = "error" => (pc = "done" /\ batchLog = <<>> /\ inFlight = 0))
  /\ []((Evaluated /\ ~lastEval.balanceOk) => exit = "error")
  /\ []((Evaluated /\ lastEval.balanceOk) => exit # "error")
  /\ [][~(deployedRounds' \subseteq deployedRounds) =>
          Len(batchLog') = Len(batchLog) + 1]_vars
  /\ [][(exit = "error" /\ pc' # pc) => (pc' = "sleep" /\ running' = 0)]_vars

\* The balance query of the second target failed after the first one had
\* been found funded: the tick is over, nothing was submitted or marked.
C16_Witness ==
  /\ pc = "done"
  /\ exit = "error"
  /\ Len(evalLog) = 2
  /\ evalLog[1] = "funded"
  /\ evalLog[2] = "error"
  /\ Len(toDeploy) = 1
  /\ batchLog = <<>>
  /\ deployedRounds = {}

\* C17 (no crash on tick errors): the process never exits once the loop
\* runs; whatever a tick met (a failed read, a failed submission), it comes
\* to its end, the loop reaches its timer, and another tick follows.
C17_NoCrash ==
  /\ [](pc # "exited")
  /\ (pc # "sleep") ~> (pc = "sleep")
  /\ (pc = "sleep") ~> (pc # "sleep")
  /\ (exit = "error") ~> (pc = "sleep" /\ exit = "none")

\* A tick has just failed on a read, after an earlier tick in which the
\* batch of the watched target failed.
C17_Witness ==
  /\ pc = "done"
  /\ exit = "error"
  /\ evalLog # <<>>
  /\ <<"failed", 1>> \in history

\* Positions of the scan whose account decodes and names the crank.
OursAt == {k \in 1..Len(accounts) : accounts[k].kind = "ours"}

\* Discovery keeps exactly the decodable accounts of the crank, in scan order.
DiscoveryKeepsOthers ==
  /\ Len(deployers) = Cardinality(OursAt)
  /\ \A k \in OursAt :
       \E j \in 1..Len(deployers) :
         /\ deployers[j] = Deployer(accounts[k].address)
         /\ j = Cardinality({m \in OursAt : m <= k})

\* No tick is cut short, and a tick that ended evaluated every deployer.
TickProcessesAll ==
  /\ exit # "error"
  /\ (pc = "done" /\ exit = "done") =>
       /\ Len(evalLog) = Len(deployers)
       /\ \A i \in 1..Len(evalLog) :
            evalLog[i] = "funded" => deployers[i].deployerAddress \in Handed

\* C18 as worded (decode failure): the undecodable deployer account is left
\* out by the scan and the target whose miner record does not decode is left
\* out by the tick, all others being processed.
C18_Original ==
  /\ DiscoveryKeepsOthers
  /\ TickProcessesAll
  /\ (Evaluated /\ lastEval.miner = "garbled") =>
       lastEval.addr \notin TaskAddrs(toDeploy)

\* C18, amended: a deployer account that does not decode is left out by the
\* scan, which keeps every other account of the crank; a miner record that
\* does not decode ends neither the tick nor the evaluation of its target:
\* the target is taken as needing no checkpoint and gets a task exactly when
\* its balance covers the required balance; every other target of the tick
\* is evaluated as well.
C18_DecodeFailure ==
  /\ DiscoveryKeepsOthers
  /\ TickProcessesAll
  /\ (Evaluated /\ lastEval.miner = "garbled") =>
       /\ lastEval.checkpointRound = NULL_ID
       /\ lastEval.required =
            calculateRequiredBalance(Deployer(lastEval.addr),
              DEPLOY_AMOUNT_LAMPORTS, SQUARES_MASK, "exists")
       /\ (lastEval.addr \in TaskAddrs(toDeploy)) <=>
            (lastEval.balance >= lastEval.required)

\* The scan met an undecodable account before two of the crank's; in the
\* tick the miner record of the first target did not decode, the target got
\* a task all the same and the evaluation goes on with the second one.
C18_Witness ==
  /\ Len(accounts) = 3
  /\ accounts[1].kind = "garbled"
  /\ Len(deployers) = 2
  /\ pc = "eval"
  /\ idx = 2
  /\ lastEval.miner = "garbled"
  /\ lastEval.addr = 2
  /\ TaskAddrs(toDeploy) = {2}

\* Positions of the scan whose table deserializes.
Readable == {k \in 1..Len(tables) : tables[k].ok}

\* The table at position k holds every fixed infrastructure address.
HoldsStatic(k) ==
  \A a \in 101..110 : \E i \in 1..Len(tables[k].addresses) : tables[k].addresses[i] = a

\* Position of the first readable table that holds them, or 0.
FirstShared ==
  IF \E k \in Readable : HoldsStatic(k)
  THEN CHOOSE k \in Readable :
         HoldsStatic(k) /\ \A m \in Readable : HoldsStatic(m) => k <= m
  ELSE 0

\* Positions of the tables taken as per-account tables.
MinerAt == {k \in Readable : k # FirstShared /\ Len(tables[k].addresses) = 5}

\* C19 (table classification): after loadAllLuts on a new registry, the
\* shared table is the first scanned table that holds every fixed address
\* (none if there is no such table); every other table with exactly 5
\* addresses is registered under its address at index 2 (the third one), a
\* later table replacing an earlier one with the same key; all other tables,
\* later tables that hold the fixed addresses among them, are in neither.
C19_TableClassification ==
  Len(loadLog) >= 1 =>
    /\ loadLog[1].sharedLut =
         (IF FirstShared = 0 THEN "none" ELSE tables[FirstShared].address)
    /\ loadLog[1].minerLuts =
         {<<tables[k].addresses[3], tables[k].address>> : k \in
            {k \in MinerAt : \A m \in MinerAt :
               tables[m].addresses[3] = tables[k].addresses[3] => m <= k}}
    /\ \A k \in 1..Len(tables) :
         (k \notin MinerAt /\ k # FirstShared) =>
           /\ loadLog[1].sharedLut # tables[k].address
           /\ \A e \in loadLog[1].minerLuts : e[2] # tables[k].address

\* Two scanned tables hold the fixed addresses: the first is the shared
\* table, the second is ignored; the third is a miner's table.
C19_Witness ==
  /\ Len(loadLog) >= 1
  /\ Len(tables) = 3
  /\ tables[1].address = "lut2"
  /\ tables[2].address = "lut"
  /\ sharedLut = "lut2"
  /\ registry.minerLuts = {<<getMinerAuthPda(1), tables[3].address>>}

----------------------------------------------------------------------------
(* C21: the tables for a batch *)

\* The miner_auth lists getLutsForMiners is asked about.
TargetLists ==
  LET auths == {getMinerAuthPda(m) : m \in 1..3}
  IN {<<>>} \cup {<<a>> : a \in auths} \cup {<<a, b>> : a, b \in auths}

\* The registered table of every target that has one, in the order asked.
RegisteredTables(reg, minerAuths) ==
  LET having == SelectSeq(minerAuths, LAMBDA a : minerLutOf(reg, a) # "none")
  IN [i \in 1..Len(having) |-> minerLutOf(reg, having[i])]

\* C21: after any sequence of loadAllLuts, ensureSharedLut and
\* ensureMinerLut calls, getLutsForMiners(targets) returns the shared table
\* whenever the registry has one, then the registered table of each requested
\* target; targets without a table contribute none.
C21_Original ==
  \A minerAuths \in TargetLists :
    getLutsForMiners(FullRegistry, minerAuths)
      = (IF sharedLut # "none" THEN <<sharedLut>> ELSE <<>>)
          \o RegisteredTables(FullRegistry, minerAuths)

----------------------------------------------------------------------------
(* C22: a failing create or extend *)

\* The last call was ensureSharedLut or ensureMinerLut.
Ensured == lastCall.op \in {"ensureSharedLut", "ensureMinerLut"}

\* C22: when a create or extend RPC fails inside ensureSharedLut or
\* ensureMinerLut, the error reaches the caller and the registry (shared
\* reference, shared address set, per-account mapping, cache) is left as it
\* was before the call.
C22_Original ==
  (Ensured /\ lastCall.threw) => FullRegistry = lastCall.before

----------------------------------------------------------------------------
(* C23: ensureSharedLut creates and extends only what is missing *)

\* The transactions of the given kind the call sent, in order.
Sent(call, kind) ==
  SelectSeq(call.events, LAMBDA e : e.what = "sent" /\ e.kind = kind)

RECURSIVE AddressesOf(_)
AddressesOf(events) ==
  IF events = <<>> THEN <<>>
  ELSE events[1].addresses \o AddressesOf(Tail(events))

\* The fixed addresses the registry had not recorded, in their order.
NotRecorded(reg) ==
  SelectSeq(StaticSharedAccounts, LAMBDA a : a \notin reg.sharedLutAccounts)

\* C23: ensureSharedLut creates a table only when the registry has no shared
\* table, and a call that returns has created one exactly then and has
\* extended the shared table with exactly the fixed addresses not yet
\* recorded; a call right after a call that returned sends no create and no
\* extend and returns the same table.
C23_EnsureSharedIdempotent ==
  lastCall.op = "ensureSharedLut" =>
    /\ Len(Sent(lastCall, "create")) <= 1
    /\ Sent(lastCall, "create") # <<>> => lastCall.before.sharedLut = "none"
    /\ ~lastCall.threw =>
         /\ Sent(lastCall, "create") # <<>> <=> lastCall.before.sharedLut = "none"
         /\ AddressesOf(Sent(lastCall, "extend")) = NotRecorded(lastCall.before)
         /\ \A e \in Range(Sent(lastCall, "extend")) : e.table = lastCall.result
         /\ lastCall.result = sharedLut
         /\ lastCall.result # "none"
    /\ (lastCall.prev = "ensureSharedLut" /\ ~lastCall.prevThrew) =>
         /\ ~lastCall.threw
         /\ lastCall.events = <<>>
         /\ lastCall.result = lastCall.before.sharedLut

\* A second ensureSharedLut right after one that created the table n1 and
\* returned: it sent nothing and returned n1.
C23_Witness ==
  /\ lastCall.op = "ensureSharedLut"
  /\ lastCall.prev = "ensureSharedLut"
  /\ ~lastCall.prevThrew
  /\ lastCall.events = <<>>
  /\ lastCall.result = "n1"
  /\ sharedLut = "n1"

----------------------------------------------------------------------------
(* C24: extension in chunks, in order, each confirmed before the next *)

\* The extend events of the last call, in order.
ExtendEvents == SelectSeq(lastCall.events, LAMBDA e : e.kind = "extend")

\* C24: extendLut splits the new addresses into consecutive chunks of at
\* most 20 and sends one extend transaction per chunk in input order, each
\* confirmed before the next is sent; with no new addresses it sends nothing;
\* in ensureSharedLut and ensureMinerLut the creation of a table the call
\* makes is confirmed before the first extension is sent (a table the
\* registry already had as shared is extended as it is).
C24_ChunkedExtension ==
  LET sent == Sent(lastCall, "extend")
      new == NewAddresses(lastCall.arg)
  IN /\ \A k \in DOMAIN sent :
          /\ Len(sent[k].addresses) \in 1..20
          /\ k < Len(sent) => Len(sent[k].addresses) = 20
     /\ \A i \in DOMAIN ExtendEvents :
          /\ i % 2 = 1 => ExtendEvents[i].what = "sent"
          /\ i % 2 = 0 =>
               /\ ExtendEvents[i].what = "confirmed"
               /\ ExtendEvents[i].addresses = ExtendEvents[i - 1].addresses
               /\ ExtendEvents[i].table = ExtendEvents[i - 1].table
     /\ lastCall.op = "extendLut" =>
          /\ Len(AddressesOf(sent)) <= Len(new)
          /\ AddressesOf(sent) = SubSeq(new, 1, Len(AddressesOf(sent)))
          /\ ~lastCall.threw =>
               /\ AddressesOf(sent) = new
               /\ Len(ExtendEvents) = 2 * Len(sent)
          /\ lastCall.arg = 0 => lastCall.events = <<>> /\ ~lastCall.threw
          /\ \A e \in Range(lastCall.events) : e.kind = "extend"
     /\ (Ensured /\ ExtendEvents # <<>>) =>
          \/ /\ Len(lastCall.events) >= 3
             /\ lastCall.events[1].what = "sent" /\ lastCall.events[1].kind = "create"
             /\ lastCall.events[2].what = "confirmed" /\ lastCall.events[2].kind = "create"
             /\ lastCall.events[2].table = lastCall.events[1].table
             /\ \A i \in 3..Len(lastCall.events) :
                  /\ lastCall.events[i].kind = "extend"
                  /\ lastCall.events[i].table = lastCall.events[1].table
          \/ /\ lastCall.op = "ensureSharedLut"
             /\ lastCall.before.sharedLut # "none"
             /\ \A e \in Range(lastCall.events) :
                  e.kind = "extend" /\ e.table = lastCall.before.sharedLut

\* extendLut returned after 41 new addresses: three transactions of 20, 20
\* and 1 addresses, each confirmed.
C24_Witness ==
  /\ lastCall.op = "extendLut"
  /\ lastCall.arg = 41
  /\ ~lastCall.threw
  /\ Len(lastCall.events) = 6
  /\ Len(lastCall.events[5].addresses) = 1
  /\ tables[1].addresses = NewAddresses(41)

----------------------------------------------------------------------------
(* C25: the shape of the transaction *)

\* C25 (transaction shape): every batch handed to a submit method gives one
\* transaction: the compute unit limit, then the compute unit price, then
\* exactly one deploy instruction per task, in the order of the batch.
C25_TransactionShape ==
  \A j \in 1..Len(batchLog) :
    LET e == batchLog[j]
        ixs == e.tx.instructions
    IN /\ e.tx.form \in {"versioned", "legacy"}
       /\ Len(ixs) = Len(e.batch) + 2
       /\ ixs[1].kind = "setComputeUnitLimit"
       /\ ixs[1].value = Min(400000 * Len(e.batch), 1400000)
       /\ ixs[2].kind = "setComputeUnitPrice"
       /\ ixs[2].value = PRIORITY_FEE
       /\ \A k \in 1..Len(e.batch) :
            /\ ixs[k + 2].kind \notin {"setComputeUnitLimit", "setComputeUnitPrice"}
            /\ ixs[k + 2].manager = e.batch[k].deployer.managerAddress
            /\ ixs[k + 2].authId = e.batch[k].authId
            /\ ixs[k + 2].amount = e.batch[k].amount
            /\ ixs[k + 2].squaresMask = e.batch[k].squaresMask
            /\ ixs[k + 2].roundId = e.roundId

\* Eight tasks with tables: a transaction of 7 tasks with the limit capped at
\* 1,400,000 units and 9 instructions, then one of 1 task with 400,000 units.
C25_Witness ==
  /\ Len(batchLog) = 2
  /\ Len(batchLog[1].batch) = 7
  /\ Len(batchLog[1].tx.instructions) = 9
  /\ batchLog[1].tx.instructions[1].value = 1400000
  /\ batchLog[1].tx.instructions[9].manager = 7
  /\ Len(batchLog[2].batch) = 1
  /\ batchLog[2].tx.instructions[1].value = 400000
  /\ batchLog[2].tx.instructions[3].manager = 8

----------------------------------------------------------------------------
(* C26: the instruction variant *)

\* The task's checkpoint flag: deploy.checkpointRound is neither null nor 0n.
Flagged(task) == task.checkpointRound # NULL_ID /\ task.checkpointRound # 0

\* C26 as stated (instruction variant): a task whose checkpoint flag is set
\* gets the combined checkpoint-and-deploy instruction, a task whose flag is
\* not set gets the plain deploy instruction.
C26_Original ==
  \A j \in 1..Len(batchLog) :
    \A k \in 1..Len(batchLog[j].batch) :
      LET ix == batchLog[j].tx.instructions[k + 2] IN
      /\ Flagged(batchLog[j].batch[k]) => ix.kind = "MMFullAutodeploy"
      /\ ~Flagged(batchLog[j].batch[k]) => ix.kind = "MMAutodeploy"

\* C26 amended: every task gets the combined checkpoint-and-deploy
\* instruction; the flag only selects the round that instruction
\* checkpoints, the task's checkpoint round when set and the current round
\* when not.
C26_AlwaysCombined ==
  \A j \in 1..Len(batchLog) :
    \A k \in 1..Len(batchLog[j].batch) :
      LET ix == batchLog[j].tx.instructions[k + 2]
          task == batchLog[j].batch[k]
      IN /\ ix.kind = "MMFullAutodeploy"
         /\ Flagged(task) => ix.checkpointRoundId = task.checkpointRound
         /\ ~Flagged(task) => ix.checkpointRoundId = batchLog[j].roundId

\* One batch in round 2 with a flagged task (round 1) and an unflagged one:
\* both instructions are the combined one.
C26_Witness ==
  \E j \in 1..Len(batchLog) :
    \E k, l \in 1..Len(batchLog[j].batch) :
      /\ batchLog[j].roundId = 2
      /\ Flagged(batchLog[j].batch[k])
      /\ ~Flagged(batchLog[j].batch[l])
      /\ batchLog[j].tx.instructions[k + 2].kind = "MMFullAutodeploy"
      /\ batchLog[j].tx.instructions[k + 2].checkpointRoundId = 1
      /\ batchLog[j].tx.instructions[l + 2].kind = "MMFullAutodeploy"
      /\ batchLog[j].tx.instructions[l + 2].checkpointRoundId = 2

----------------------------------------------------------------------------
(* C27: compacted or expanded *)

\* C27 (compacted versus expanded form): the loop sends a batch as a
\* versioned transaction compiled with the registry's tables exactly when the
\* registry has a shared table and as a legacy transaction otherwise; the
\* versioned submit method called without a shared table throws and hands
\* nothing to the network; so no batch of the loop that is larger than the
\* limit without tables goes out in legacy form.
C27_CompactedIffShared ==
  /\ \A j \in 1..Len(batchLog) :
       LET e == batchLog[j] IN
       /\ e.tx.form = "versioned" <=> sharedLut # "none"
       /\ e.tx.form = "legacy" <=> sharedLut = "none"
       /\ e.tx.form = "versioned" => sharedLut \in Range(e.tx.luts)
       /\ e.tx.form = "legacy" => e.tx.luts = <<>>
       /\ Len(e.batch) > MAX_BATCH_SIZE_NO_LUT => e.tx.form = "versioned"
  /\ lastCall.op = "executeBatchedAutoDeploysVersioned" =>
       IF lastCall.before.sharedLut = "none"
       THEN lastCall.threw /\ lastCall.events = <<>>
       ELSE /\ Len(lastCall.events) = 1
            /\ lastCall.events[1].form = "versioned"
            /\ lastCall.result = "throw" <=> lastCall.threw

\* Without a shared table: the versioned method, called on its own for three
\* deployers, threw and sent nothing, and the loop sent a legacy batch of two.
C27_Witness ==
  /\ sharedLut = "none"
  /\ lastCall.op = "executeBatchedAutoDeploysVersioned"
  /\ lastCall.arg = 3
  /\ lastCall.threw
  /\ lastCall.events = <<>>
  /\ Len(batchLog) >= 1
  /\ Len(batchLog[1].batch) = MAX_BATCH_SIZE_NO_LUT
  /\ batchLog[1].tx.form = "legacy"

----------------------------------------------------------------------------
(* C28: the rent of the miner account *)

\* What the call added on top of rent, checkpoint fee, deployed amount, fees.
RentTerm ==
  calc.required
    - (890880 + 10000 + calc.amount * BitsSet(calc.mask)
         + (calc.amount * BitsSet(calc.mask) * calc.bpsFee) \div 10000
         + calc.flatFee + 1000)

\* C28 as stated (conditional sub-account rent): calculateRequiredBalance adds
\* the miner rent only if the probe shows that the ORE miner account does not
\* exist; in every other case the rent term is zero.
C28_Original ==
  calc.called => RentTerm = (IF calc.probe = "missing" THEN 2500000 ELSE 0)

\* C28 amended: the miner rent is added if the probe shows that the ORE miner
\* account does not exist and also if the probe itself fails; the rent term
\* is zero only when the probe shows that the account exists.
C28_ConditionalRent ==
  calc.called =>
    /\ calc.probe = "missing" => RentTerm = 2500000
    /\ calc.probe = "error" => RentTerm = 2500000
    /\ calc.probe = "exists" => RentTerm = 0
    /\ calc.probe \in {"missing", "error", "exists"}

\* A call whose probe threw: the rent was added.
C28_Witness ==
  /\ calc.called
  /\ calc.probe = "error"
  /\ calc.amount = 10000
  /\ RentTerm = 2500000

----------------------------------------------------------------------------
(* C29: the batch limit of the SDK *)

\* C29 (SDK batch limit): buildBatchedAutodeployInstructions throws for more
\* than 7 deploys; for 0 to 7 deploys it returns exactly one autodeploy
\* instruction per deploy, in the order of the input, for the given round.
C29_SdkBatchLimit ==
  sdk.op = "buildBatchedAutodeployInstructions" =>
    /\ sdk.threw <=> Len(sdk.input) > 7
    /\ ~sdk.threw =>
         /\ Len(sdk.output) = Len(sdk.input)
         /\ \A k \in 1..Len(sdk.input) :
              /\ sdk.output[k].kind = "MMAutodeploy"
              /\ sdk.output[k].manager = sdk.input[k].manager
              /\ sdk.output[k].authId = sdk.input[k].authId
              /\ sdk.output[k].amount = sdk.input[k].amount
              /\ sdk.output[k].squaresMask = sdk.input[k].squaresMask
              /\ sdk.output[k].roundId = sdk.roundId

\* Seven deploys for the managers 9 down to 3 in round 2: seven instructions
\* in that order.
C29_Witness ==
  /\ sdk.op = "buildBatchedAutodeployInstructions"
  /\ Len(sdk.input) = 7
  /\ ~sdk.threw
  /\ sdk.roundId = 2
  /\ Len(sdk.output) = 7
  /\ sdk.output[1].manager = 9
  /\ sdk.output[7].manager = 3

----------------------------------------------------------------------------
(* C30: squares and masks *)

\* C30 (mask round trip): squaresToMask throws exactly when the array does
\* not have 25 elements; for an array s of 25 booleans
\* maskToSquares(squaresToMask(s)) = s and countBits(squaresToMask(s)) is the
\* number of true entries of s; for a mask m with bits 0..24 only,
\* squaresToMask(maskToSquares(m)) = m.
C30_MaskRoundTrip ==
  /\ sdk.op = "squaresToMask" =>
       /\ sdk.threw <=> Len(sdk.input) # 25
       /\ ~sdk.threw =>
            /\ sdk.back = sdk.input
            /\ sdk.bits = Cardinality({i \in 1..25 : sdk.input[i]})
            /\ sdk.output \in 0..(2 ^ 25 - 1)
  /\ sdk.op = "maskToSquares" =>
       /\ Len(sdk.output) = 25
       /\ ~sdk.threw
       /\ sdk.input < 2 ^ 25 => sdk.back = sdk.input

\* The array with the first and the last square only: mask 2^24 + 1, two bits.
C30_Witness ==
  /\ sdk.op = "squaresToMask"
  /\ ~sdk.threw
  /\ sdk.input = SquaresOn(25, {0, 24})
  /\ sdk.output = 16777217
  /\ sdk.bits = 2
  /\ sdk.back = sdk.input

----------------------------------------------------------------------------
(* C31: the fee example *)

\* The call of the example: 0.1 SOL deployed, 5 % (500 bps), 2000 lamports flat.
FeeExample ==
  sdk.op = "calculateDeployerFee" /\ sdk.input = <<100000000, 500, 2000>>

----------------------------------------------------------------------------
(* C32: what the markers are *)

\* C32 (marker invariant): every key in state.deployedRounds is the address
\* of a deployer of the managed list with the round id that
\* state.lastRoundId holds; there is no marker for another round or for an
\* account that is not managed.
C32_MarkerInvariant ==
  \A key \in deployedRounds :
    /\ key[2] = lastRoundId
    /\ lastRoundId # NULL_ID
    /\ \E k \in 1..Len(deployers) : key = deployKey(deployers[k].deployerAddress, lastRoundId)

\* In round 2, after the watched deployer was marked in round 1, two
\* deployers are marked, both for round 2.
C32_Witness ==
  /\ <<"accepted", 1>> \in history
  /\ lastRoundId = 2
  /\ Cardinality(deployedRounds) = 2
  /\ \A key \in deployedRounds : key[2] = 2

----------------------------------------------------------------------------
(* C33: the batches partition the tasks *)

\* The batch size of the tick.
SizeNow == IF sharedLut # "none" THEN 7 ELSE 2

\* C33 (partition): the batches handed to the submitter in a tick are the
\* consecutive slices of the tick's list of eligible tasks, which is in the
\* order of the managed list: the j-th batch is the j-th slice of batchSize
\* tasks, so no batch is empty and every batch but the last is full; when
\* the tick has ended every task is in exactly one batch; and no task of a
\* batch was marked for the round when the batch was handed over.
C33_Partition ==
  /\ [](/\ \A j \in 1..Len(batchLog) :
             /\ batchLog[j].batch =
                  SubSeq(toDeploy, (j - 1) * SizeNow + 1,
                         IF j * SizeNow < Len(toDeploy) THEN j * SizeNow
                         ELSE Len(toDeploy))
             /\ Len(batchLog[j].batch) >= 1
             /\ j < Len(batchLog) => Len(batchLog[j].batch) = SizeNow
        /\ \A a, b \in 1..Len(toDeploy) :
             a < b =>
               \E k, l \in 1..Len(deployers) :
                 /\ k < l
                 /\ deployers[k] = toDeploy[a].deployer
                 /\ deployers[l] = toDeploy[b].deployer
        /\ (pc = "done" /\ exit = "done") =>
             /\ Len(batchLog) * SizeNow >= Len(toDeploy)
             /\ (Len(batchLog) - 1) * SizeNow < Len(toDeploy) \/ batchLog = <<>>)
  /\ [][Len(batchLog') = Len(batchLog) + 1 =>
          \A k \in 1..Len(batchLog'[Len(batchLog')].batch) :
            deployKey(batchLog'[Len(batchLog')].batch[k].deployer.deployerAddress,
                      batchLog'[Len(batchLog')].roundId) \notin deployedRounds]_vars

\* Without tables a tick with five eligible tasks ended after batches of
\* two, two and one, all accepted, the three other deployers having been
\* marked by an earlier tick of the round.
C33_Witness ==
  /\ sharedLut = "none"
  /\ pc = "done"
  /\ exit = "done"
  /\ Len(toDeploy) = 5
  /\ Len(batchLog) = 3
  /\ Len(batchLog[3].batch) = 1
  /\ Len(deployers) = 8
  /\ Cardinality(deployedRounds) = 8

----------------------------------------------------------------------------
(* C34: evaluate all, then submit *)

\* Some evaluation of the tick raised an error.
EvalRaised == \E k \in 1..Len(evalLog) : evalLog[k] = "error"

\* C34 (evaluate all, then submit): a batch is only handed to the submitter
\* once every account of the managed list has been visited by the tick, the
\* unmarked ones evaluated, none of them with an error; when the evaluation
\* of an account raises an error the tick ends there with the error, with no
\* batch submitted, and the accounts found eligible before it stay without a
\* marker; a marker is only ever added by a tick whose evaluations all went
\* through.
C34_EvaluateAllThenSubmit ==
  /\ [](batchLog # <<>> => (Len(evalLog) = Len(deployers) /\ ~EvalRaised))
  /\ [](EvalRaised =>
          /\ pc = "done"
          /\ exit = "error"
          /\ batchLog = <<>>
          /\ evalLog[Len(evalLog)] = "error"
          /\ \A k \in 1..Len(toDeploy) :
               deployKey(toDeploy[k].deployer.deployerAddress, board.roundId)
                 \notin deployedRounds)
  /\ [][~(deployedRounds' \subseteq deployedRounds) =>
          (Len(evalLog') = Len(deployers) /\ ~EvalRaised')]_vars
  /\ [][EvalRaised => deployedRounds' = deployedRounds]_vars

\* The balance query of the third target failed after the first two had
\* been found eligible: nothing was submitted and nobody is marked.
C34_Witness ==
  /\ pc = "done"
  /\ exit = "error"
  /\ evalLog = <<"funded", "funded", "error">>
  /\ Len(toDeploy) = 2
  /\ batchLog = <<>>
  /\ deployedRounds = {}

----------------------------------------------------------------------------
(* C35: what a tick leaves alone *)

\* C35 (startup snapshot): no step of a tick, and nothing between ticks,
\* changes the managed list (fee terms included) or the registry; so in every
\* tick the tasks are built from the deployers found at start, with their fee
\* terms, and every batch has at most the batch size and the transaction form
\* that the shared table found at start gives.
C35_StartupSnapshot ==
  /\ [][/\ deployers' = deployers
        /\ sharedLut' = sharedLut
        /\ registry' = registry]_vars
  /\ [](\A k \in 1..Len(toDeploy) :
          \E i \in 1..Len(deployers) : toDeploy[k].deployer = deployers[i])
  /\ [](\A j \in 1..Len(batchLog) :
          /\ Len(batchLog[j].batch) <= (IF sharedLut # "none" THEN 7 ELSE 2)
          /\ batchLog[j].tx.form =
               (IF sharedLut # "none" THEN "versioned" ELSE "legacy")
          /\ \A k \in 1..Len(batchLog[j].batch) :
               \E i \in 1..Len(deployers) :
                 batchLog[j].batch[k].deployer = deployers[i])

\* A tick of the second round has sent its three targets in one versioned
\* transaction, after the ticks of the first round.
C35_Witness ==
  /\ pc = "done"
  /\ sharedLut = "lut"
  /\ lastRoundId = 2
  /\ Len(deployers) = 3
  /\ Len(batchLog) = 1
  /\ Len(batchLog[1].batch) = 3
  /\ batchLog[1].tx.form = "versioned"
  /\ batchLog[1].roundId = 2

----------------------------------------------------------------------------
(* C36: one table per miner *)

\* The tables on chain that this registry's calls created and that hold the
\* accounts of the manager's miner.
MinerTablesMade(manager) ==
  {i \in DOMAIN tables :
     /\ tables[i].address \in Range(NewTableNames)
     /\ Len(tables[i].addresses) >= 3
     /\ tables[i].addresses[3] = getMinerAuthPda(manager)}

\* C36 (ensureMinerLut is idempotent): the calls of the registry create at
\* most one table per miner.
C36_Original ==
  \A manager \in 1..2 : Cardinality(MinerTablesMade(manager)) <= 1

----------------------------------------------------------------------------
(* C37: what set-up created, discovery finds *)

\* The steps of setupLog that ensured a table, with their positions.
Ensures == {k \in 1..Len(setupLog) : setupLog[k].step \in {"shared", "miner"}}

\* C37 (create, then discover): after ensureMinerLut has created and
\* extended a table for a miner, loadAllLuts on a new registry, whatever the
\* order of the scan, maps that miner_auth to that table and caches it, and
\* ensureMinerLut on the loaded registry sends nothing; after ensureSharedLut
\* has returned, loadAllLuts on a new registry takes the table it returned as
\* the shared table and ensureSharedLut on the loaded registry sends nothing;
\* and in a later run of the set-up every table that an earlier run had
\* created or found is found again as the table of the same role, without a
\* transaction.
C37_RoundTrip ==
  /\ (lastCall.op = "ensureMinerLut" /\ ~lastCall.threw /\ lastCall.events # <<>>) =>
       \A scan \in Orders(tables) :
         LET fresh == loadAllLuts(NewRegistry, scan) IN
         /\ minerLutOf(fresh, getMinerAuthPda(lastCall.arg)) = lastCall.result
         /\ lastCall.result \in fresh.lutCache
         /\ ensureMinerLut(fresh, tables, "n6", lastCall.arg, NoFailure).events = <<>>
  /\ (lastCall.op = "ensureSharedLut" /\ ~lastCall.threw) =>
       \A scan \in Orders(tables) :
         LET fresh == loadAllLuts(NewRegistry, scan) IN
         /\ fresh.sharedLut = lastCall.result
         /\ lastCall.result \in fresh.lutCache
         /\ ensureSharedLut(fresh, tables, "n6", NoFailure).events = <<>>
  /\ \A j, k \in Ensures :
       (/\ setupLog[j].run < setupLog[k].run
        /\ setupLog[j].step = setupLog[k].step
        /\ setupLog[j].role = setupLog[k].role
        /\ setupLog[j].outcome \in {"created", "has"}) =>
         /\ setupLog[k].outcome = "has"
         /\ setupLog[k].table = setupLog[j].table
         /\ setupLog[k].sent = 0

\* The first run created the shared table n1 and the table n2 of the only
\* miner; the second run found both and sent nothing.
C37_Witness ==
  /\ pc = "complete"
  /\ Len(setupLog) = 6
  /\ setupLog[2].outcome = "created"
  /\ setupLog[2].table = "n1"
  /\ setupLog[3].outcome = "created"
  /\ setupLog[3].table = "n2"
  /\ setupLog[5].outcome = "has"
  /\ setupLog[5].table = "n1"
  /\ setupLog[6].outcome = "has"
  /\ setupLog[6].table = "n2"
  /\ setupLog[6].sent = 0

----------------------------------------------------------------------------
(* C38: the order of the set-up and its failures *)

\* The miner steps of the running set-up, in order.
MinerSteps ==
  SelectSeq(setupLog, LAMBDA e : e.run = Len(loadLog) /\ e.step = "miner")

\* C38 (set-up, order and isolation): every run of the set-up discovers the
\* tables first, then ensures the shared table, and only when that has
\* returned goes through the miners, in the order of the deployers found; a
\* failure of ensureMinerLut for one miner does not end the run: the run
\* only ends early when ensureSharedLut failed, and a run that completes has
\* gone through every deployer; a miner that had a table is skipped without
\* a transaction, for a miner that had none ensureMinerLut is called.
C38_SetupOrder ==
  /\ \A k \in 1..Len(setupLog) :
       LET e == setupLog[k] IN
       /\ e.step = "discover" => (k = 1 \/ setupLog[k - 1].run < e.run)
       /\ e.step = "shared" =>
            (k > 1 /\ setupLog[k - 1].step = "discover" /\ setupLog[k - 1].run = e.run)
       /\ e.step = "miner" =>
            /\ k > 1
            /\ setupLog[k - 1].run = e.run
            /\ \/ setupLog[k - 1].step = "miner"
               \/ (setupLog[k - 1].step = "shared" /\ setupLog[k - 1].outcome # "failed")
            /\ e.had => (e.outcome = "has" /\ e.sent = 0 /\ e.table # "none")
            /\ ~e.had => e.outcome \in {"created", "failed"}
  /\ pc \in {"miners", "complete"} =>
       \A i \in 1..Len(MinerSteps) :
         /\ i <= Len(deployers)
         /\ MinerSteps[i].role = getMinerAuthPda(deployers[i].managerAddress)
  /\ pc = "miners" => Len(MinerSteps) = idx - 1
  /\ pc = "complete" => Len(MinerSteps) = Len(deployers)
  /\ pc = "exited" =>
       /\ setupLog[Len(setupLog)].step = "shared"
       /\ setupLog[Len(setupLog)].outcome = "failed"

\* In the first run ensureMinerLut failed for the first of two miners and
\* the table of the second was made after that; the second run has
\* completed and skipped both, the first miner's table having landed.
C38_Witness ==
  /\ pc = "complete"
  /\ Len(loadLog) = 2
  /\ Len(deployers) = 2
  /\ Len(MinerSteps) = 2
  /\ MinerSteps[1].had
  /\ MinerSteps[1].sent = 0
  /\ MinerSteps[2].had
  /\ MinerSteps[2].sent = 0
  /\ \E k \in 1..Len(setupLog) :
       /\ k < Len(setupLog)
       /\ setupLog[k].run = 1
       /\ setupLog[k].step = "miner"
       /\ setupLog[k].outcome = "failed"
       /\ setupLog[k + 1].run = 1
       /\ setupLog[k + 1].step = "miner"
       /\ setupLog[k + 1].outcome = "created"

====
